---- MODULE Spec2Model ----
(***************************************************************************)
(* Point analysis and alert correlation engine of the gas turbine          *)
(* monitoring system: limix_analyzer.py (GasTurbineAnalyzer),              *)
(* point_table_loader.py (PointTableLoader) and the worker loops of        *)
(* main_system.py (GasTurbineMonitoringSystem).                            *)
(*                                                                         *)
(* Numbers.  Measured values, thresholds and limits are integers.  An      *)
(* anomaly probability p in [0,1] is kept as the integer 100*p.  A         *)
(* fluctuation rate |dv|/5 is kept as its numerator |dv| and compared      *)
(* with 5 * limit.  Times are seconds.  A history sample is its value:     *)
(* the sample's timestamp is read only to build recent_history, which no   *)
(* property below looks at.  A status description is the sequence of its   *)
(* clauses (the code joins them with a separator that occurs in no         *)
(* clause, and splits at it again to take the first clause).               *)
(***************************************************************************)
EXTENDS Integers, Sequences, FiniteSets, TLC

VARIABLES
    alarm_thresholds,    \* PointTableLoader.alarm_thresholds: kks -> thresholds
    detection_config,    \* PointTableLoader.detection_config: kks -> config
    data_history,        \* GasTurbineAnalyzer.data_history: kks -> samples
    alarm_send_history,  \* GasTurbineAnalyzer.alarm_send_history
    analysis_results,    \* GasTurbineAnalyzer.analysis_results (last cycle)
    data_queue,          \* GasTurbineMonitoringSystem.data_queue
    result_queue,        \* GasTurbineMonitoringSystem.result_queue
    deepseek_queue,      \* GasTurbineMonitoringSystem.deepseek_queue
    now,                 \* the wall clock, datetime.now(), in seconds
    running,             \* GasTurbineMonitoringSystem.running
    exited,              \* the worker threads that have left their loops
    deepseek_client,     \* EnhancedDeepSeekClient: is_ready, rag_initialized
    escalation,          \* the escalation worker's place in _process_deepseek_analysis
    batches,             \* history variable: the batches received, taken, sent on
    cycle,               \* history variable: what the last analysis cycle read
    call                 \* argument and result of a directly applied function

vars == <<alarm_thresholds, detection_config, data_history, alarm_send_history,
          analysis_results, data_queue, result_queue, deepseek_queue, now,
          running, exited, deepseek_client, escalation, batches, cycle, call>>

----------------------------------------------------------------------------
(* Optional numbers: Python's None or a float. *)

None == [tag |-> "none", v |-> 0, p |-> ""]

Lit(n) == [tag |-> "lit", v |-> n, p |-> ""]

(* A threshold cell holding the name of another point (a string with 'XQ'). *)
Ref(kks) == [tag |-> "ref", v |-> 0, p |-> kks]

Abs(x) == IF x < 0 THEN -x ELSE x

SeqMax(s) == CHOOSE x \in {s[i] : i \in DOMAIN s} : \A i \in DOMAIN s : s[i] <= x

SeqMin(s) == CHOOSE x \in {s[i] : i \in DOMAIN s} : \A i \in DOMAIN s : x <= s[i]

(* Python's s[-n:] *)
LastN(s, n) == IF Len(s) <= n THEN s ELSE SubSeq(s, Len(s) - n + 1, Len(s))

(* dict.get(kks, []) on data_history *)
HistoryOf(hist, kks) == IF kks \in DOMAIN hist THEN hist[kks] ELSE <<>>

----------------------------------------------------------------------------
(* Program constants *)

alarm_cooldown_hours == 1

cleanup_threshold == 24

prediction_interval == 5

prediction_minutes == 3

prediction_points == (prediction_minutes * 60) \div prediction_interval

min_data_points == 30

stability_threshold_pct == 1

anomaly_prob_threshold == 80

stable_anomaly_prob == 10

time_diff == 5

----------------------------------------------------------------------------
(* Thresholds *)

(* A lookup that defaults to 0 for a point the batch does not carry *)
resolve_threshold_reference_default0(threshold_value, current_data) ==
    IF threshold_value.tag = "ref"
    THEN IF threshold_value.p \in DOMAIN current_data
         THEN Lit(current_data[threshold_value.p])
         ELSE Lit(0)
    ELSE threshold_value

resolve_threshold_reference(threshold_value, current_data) ==
    IF threshold_value.tag = "ref"
    THEN IF threshold_value.p \in DOMAIN current_data
         THEN Lit(current_data[threshold_value.p])
         ELSE None
    ELSE threshold_value

safe_parse_threshold(threshold_value, current_data) ==
    LET threshold == resolve_threshold_reference(threshold_value, current_data)
    IN  IF threshold.tag = "none" THEN None ELSE Lit(threshold.v)

safe_compare(value, threshold, operator) ==
    CASE operator = ">=" -> value >= threshold
      [] operator = "<=" -> value <= threshold
      [] operator = ">"  -> value > threshold
      [] operator = "<"  -> value < threshold
      [] OTHER -> FALSE

(* "is not None and _safe_compare(...)" *)
Crosses(value, parsed, operator) ==
    parsed.tag # "none" /\ safe_compare(value, parsed.v, operator)

(* The HH test tried before the LLL test *)
check_alarm_thresholds_hh_first(value, thresholds, current_data) ==
    LET hhh == safe_parse_threshold(thresholds.HHH, current_data)
        hh  == safe_parse_threshold(thresholds.HH, current_data)
        h   == safe_parse_threshold(thresholds.H, current_data)
        l   == safe_parse_threshold(thresholds.L, current_data)
        ll  == safe_parse_threshold(thresholds.LL, current_data)
        lll == safe_parse_threshold(thresholds.LLL, current_data)
    IN  IF Crosses(value, hhh, ">=") THEN "CRITICAL"
        ELSE IF Crosses(value, hh, ">=") THEN "HIGH"
        ELSE IF Crosses(value, lll, "<=") THEN "CRITICAL"
        ELSE IF Crosses(value, ll, "<=") THEN "HIGH"
        ELSE IF Crosses(value, h, ">=") THEN "MEDIUM"
        ELSE IF Crosses(value, l, "<=") THEN "MEDIUM"
        ELSE "NORMAL"

check_alarm_thresholds(value, thresholds, current_data) ==
    LET hhh == safe_parse_threshold(thresholds.HHH, current_data)
        hh  == safe_parse_threshold(thresholds.HH, current_data)
        h   == safe_parse_threshold(thresholds.H, current_data)
        l   == safe_parse_threshold(thresholds.L, current_data)
        ll  == safe_parse_threshold(thresholds.LL, current_data)
        lll == safe_parse_threshold(thresholds.LLL, current_data)
    IN  IF Crosses(value, hhh, ">=") THEN "CRITICAL"
        ELSE IF Crosses(value, lll, "<=") THEN "CRITICAL"
        ELSE IF Crosses(value, hh, ">=") THEN "HIGH"
        ELSE IF Crosses(value, ll, "<=") THEN "HIGH"
        ELSE IF Crosses(value, h, ">=") THEN "MEDIUM"
        ELSE IF Crosses(value, l, "<=") THEN "MEDIUM"
        ELSE "NORMAL"

(* A value equal to a protection limit taken as a breach *)
check_protection_thresholds_inclusive(kks, value, current_data) ==
    IF kks \notin DOMAIN alarm_thresholds
    THEN [is_protection_breach |-> FALSE, protection_value |-> 0, direction |-> ""]
    ELSE LET thresholds == alarm_thresholds[kks]
             upper_limit == safe_parse_threshold(thresholds.upper_limit, current_data)
             lower_limit == safe_parse_threshold(thresholds.lower_limit, current_data)
         IN  IF Crosses(value, upper_limit, ">=")
             THEN [is_protection_breach |-> TRUE,
                   protection_value |-> upper_limit.v, direction |-> "above"]
             ELSE IF Crosses(value, lower_limit, "<=")
             THEN [is_protection_breach |-> TRUE,
                   protection_value |-> lower_limit.v, direction |-> "below"]
             ELSE [is_protection_breach |-> FALSE, protection_value |-> 0,
                   direction |-> ""]

check_protection_thresholds(kks, value, current_data) ==
    IF kks \notin DOMAIN alarm_thresholds
    THEN [is_protection_breach |-> FALSE, protection_value |-> 0, direction |-> ""]
    ELSE LET thresholds == alarm_thresholds[kks]
             upper_limit == safe_parse_threshold(thresholds.upper_limit, current_data)
             lower_limit == safe_parse_threshold(thresholds.lower_limit, current_data)
         IN  IF Crosses(value, upper_limit, ">")
             THEN [is_protection_breach |-> TRUE,
                   protection_value |-> upper_limit.v, direction |-> "above"]
             ELSE IF Crosses(value, lower_limit, "<")
             THEN [is_protection_breach |-> TRUE,
                   protection_value |-> lower_limit.v, direction |-> "below"]
             ELSE [is_protection_breach |-> FALSE, protection_value |-> 0,
                   direction |-> ""]

----------------------------------------------------------------------------
(* Detectors over a point's history *)

(* (max_val - min_val) / max_val < stability_threshold, in exact arithmetic
   and for max_val # 0: a negative divisor turns the comparison round. *)
RelativeChangeBelow(min_val, max_val) ==
    IF max_val > 0
    THEN 100 * (max_val - min_val) < stability_threshold_pct * max_val
    ELSE 100 * (max_val - min_val) > stability_threshold_pct * max_val

(* Without the test for a maximum of 0 *)
is_data_too_stable_no_zero(kks) ==
    IF kks \notin DOMAIN data_history \/ Len(data_history[kks]) < 10
    THEN FALSE
    ELSE LET values == LastN(data_history[kks], 20)
         IN  IF Len(values) < 5 THEN FALSE
             ELSE IF SeqMax(values) = 0 THEN FALSE
             ELSE RelativeChangeBelow(SeqMin(values), SeqMax(values))

is_data_too_stable(kks) ==
    IF kks \notin DOMAIN data_history \/ Len(data_history[kks]) < 10
    THEN FALSE
    ELSE LET values == LastN(data_history[kks], 20)
         IN  IF Len(values) < 5 THEN FALSE
             ELSE IF SeqMax(values) = 0 THEN TRUE
             ELSE RelativeChangeBelow(SeqMin(values), SeqMax(values))

(* avg_change = (values[-1] - values[0]) / 10 and
   change_threshold = max(abs(avg_change) * 3, 0.001): on integers
   abs(recent_change) > change_threshold is the conjunction below. *)
analyze_trend(kks) ==
    LET history == HistoryOf(data_history, kks)
    IN  IF Len(history) < 10 THEN "STABLE"
        ELSE LET values == LastN(history, 10)
                 recent_change == values[Len(values)] - values[Len(values) - 1]
                 span == values[Len(values)] - values[1]
             IN  IF Len(values) * Abs(recent_change) > 3 * Abs(span)
                    /\ Abs(recent_change) > 0
                 THEN IF recent_change > 0 THEN "INCREASING" ELSE "DECREASING"
                 ELSE "STABLE"

(* The classifier is an external capability: clf.ok = FALSE is a call that
   raised, clf.prob the mean score it returned, times 100. *)
Clamp(p) == IF p < 0 THEN 0 ELSE IF p > 100 THEN 100 ELSE p

(* Whether _detect_anomalies gets as far as clf_predictor.predict *)
ClassifierReached(kks) ==
    LET history == HistoryOf(data_history, kks)
        values == LastN(history, 20)
    IN  /\ Len(history) >= min_data_points
        /\ ~ (Len(values) >= 5 /\ SeqMax(values) # 0
              /\ RelativeChangeBelow(SeqMin(values), SeqMax(values)))
        /\ Len(values) > 10

detect_anomalies(kks, clf) ==
    LET history == HistoryOf(data_history, kks)
        values == LastN(history, 20)
    IN  IF Len(history) < min_data_points THEN 0
        ELSE IF Len(values) >= 5 /\ SeqMax(values) # 0
                /\ RelativeChangeBelow(SeqMin(values), SeqMax(values))
        THEN stable_anomaly_prob
        ELSE IF Len(values) <= 10 THEN stable_anomaly_prob
        ELSE IF clf.ok THEN Clamp(clf.prob) ELSE 0

(* A rate equal to the limit taken as detected *)
detect_fluctuation_inclusive(kks, fluctuation_range) ==
    LET history == HistoryOf(data_history, kks)
    IN  IF Len(history) < 5 \/ fluctuation_range.tag = "none"
        THEN [detected |-> FALSE, max_fluctuation |-> 0]
        ELSE LET values == LastN(history, 5)
                 fluctuations == [i \in 1..(Len(values) - 1) |->
                                    Abs(values[i + 1] - values[i])]
                 max_fluctuation == SeqMax(fluctuations)
             IN  [detected |-> max_fluctuation >= time_diff * fluctuation_range.v,
                  max_fluctuation |-> max_fluctuation]

(* max_fluctuation is kept times time_diff: the largest |v[i] - v[i-1]| *)
detect_fluctuation(kks, fluctuation_range) ==
    LET history == HistoryOf(data_history, kks)
    IN  IF Len(history) < 5 \/ fluctuation_range.tag = "none"
        THEN [detected |-> FALSE, max_fluctuation |-> 0]
        ELSE LET values == LastN(history, 5)
                 fluctuations == [i \in 1..(Len(values) - 1) |->
                                    Abs(values[i + 1] - values[i])]
                 max_fluctuation == SeqMax(fluctuations)
             IN  [detected |-> max_fluctuation > time_diff * fluctuation_range.v,
                  max_fluctuation |-> max_fluctuation]

detect_mutation(kks, mutation_range) ==
    LET history == HistoryOf(data_history, kks)
    IN  IF Len(history) < 3 \/ mutation_range.tag = "none"
        THEN [detected |-> FALSE, mutation_value |-> 0]
        ELSE LET values == LastN(history, 3)
                 mutation_value == Abs(values[Len(values)] - values[Len(values) - 1])
             IN  [detected |-> mutation_value > mutation_range.v,
                  mutation_value |-> mutation_value]

----------------------------------------------------------------------------
(* Trend prediction *)

NoPredictionAlarm ==
    [prediction_alarm_level |-> "", predicted_value |-> None,
     prediction_threshold |-> None, time_to_alarm |-> None]

(* Offsets counted from 0 *)
DetailedPrediction_from_zero(pred_values) ==
    [i \in 1..Len(pred_values) |->
        [time_offset |-> (i - 1) * prediction_interval,
         predicted_value |-> pred_values[i]]]

(* lines 726-737: one entry per predicted value, in forecast order *)
DetailedPrediction(pred_values) ==
    [i \in 1..Len(pred_values) |->
        [time_offset |-> i * prediction_interval,
         predicted_value |-> pred_values[i]]]

PredictionAlarmAt(pred_point, level, threshold) ==
    [prediction_alarm_level |-> level,
     predicted_value |-> Lit(pred_point.predicted_value),
     prediction_threshold |-> Lit(threshold.v),
     time_to_alarm |-> Lit(pred_point.time_offset)]

RECURSIVE PredictionAlarmFrom(_, _, _, _)
(* The loop of _check_prediction_alarm from entry i on: it ends at the first
   entry that crosses a threshold. *)
PredictionAlarmFrom(i, detailed_prediction, thresholds, current_data) ==
    IF i > Len(detailed_prediction) THEN NoPredictionAlarm
    ELSE LET pred_point == detailed_prediction[i]
             pred_value == pred_point.predicted_value
             hhh == safe_parse_threshold(thresholds.HHH, current_data)
             hh  == safe_parse_threshold(thresholds.HH, current_data)
             h   == safe_parse_threshold(thresholds.H, current_data)
             l   == safe_parse_threshold(thresholds.L, current_data)
             ll  == safe_parse_threshold(thresholds.LL, current_data)
             lll == safe_parse_threshold(thresholds.LLL, current_data)
         IN  IF Crosses(pred_value, hhh, ">=")
             THEN PredictionAlarmAt(pred_point, "CRITICAL", hhh)
             ELSE IF Crosses(pred_value, lll, "<=")
             THEN PredictionAlarmAt(pred_point, "CRITICAL", lll)
             ELSE IF Crosses(pred_value, hh, ">=")
             THEN PredictionAlarmAt(pred_point, "HIGH", hh)
             ELSE IF Crosses(pred_value, ll, "<=")
             THEN PredictionAlarmAt(pred_point, "HIGH", ll)
             ELSE IF Crosses(pred_value, h, ">=")
             THEN PredictionAlarmAt(pred_point, "MEDIUM", h)
             ELSE IF Crosses(pred_value, l, "<=")
             THEN PredictionAlarmAt(pred_point, "MEDIUM", l)
             ELSE PredictionAlarmFrom(i + 1, detailed_prediction, thresholds,
                                      current_data)

check_prediction_alarm(detailed_prediction, thresholds, current_data) ==
    PredictionAlarmFrom(1, detailed_prediction, thresholds, current_data)

(* pred_values[-1] > pred_values[0] * 1.05, and < pred_values[0] * 0.95 *)
PredictedTrend(pred_values) ==
    IF Len(pred_values) >= 2
    THEN IF 100 * pred_values[Len(pred_values)] > 105 * pred_values[1]
         THEN "INCREASING"
         ELSE IF 100 * pred_values[Len(pred_values)] < 95 * pred_values[1]
         THEN "DECREASING"
         ELSE "STABLE"
    ELSE "STABLE"

NoPrediction ==
    [predicted_trend |-> "STABLE", prediction_error |-> FALSE,
     detailed_prediction |-> <<>>,
     prediction_alarm_level |-> "", predicted_value |-> None,
     prediction_threshold |-> None, time_to_alarm |-> None]

(* lines 714-742: what _predict_trend_and_alarm makes of the forecaster's
   answer pred_values *)
WithPredictionAlarm(predicted_trend, detailed_prediction, alarm_check) ==
    [predicted_trend |-> predicted_trend,
     prediction_error |-> FALSE,
     detailed_prediction |-> detailed_prediction,
     prediction_alarm_level |-> alarm_check.prediction_alarm_level,
     predicted_value |-> alarm_check.predicted_value,
     prediction_threshold |-> alarm_check.prediction_threshold,
     time_to_alarm |-> alarm_check.time_to_alarm]

PredictionResult(pred_values, thresholds, current_data) ==
    IF Len(pred_values) = 0 THEN NoPrediction
    ELSE WithPredictionAlarm(PredictedTrend(pred_values),
                             DetailedPrediction(pred_values),
                             check_prediction_alarm(DetailedPrediction(pred_values),
                                                    thresholds, current_data))

(* ForecasterReached, were one window of history enough *)
ForecasterReached_one_window(kks) ==
    LET history == HistoryOf(data_history, kks)
    IN  Len(history) >= prediction_points

(* Whether _predict_trend_and_alarm gets as far as reg_predictor.predict:
   the training pairs are range(len(values) - 2 * window_size). *)
ForecasterReached(kks) ==
    LET history == HistoryOf(data_history, kks)
    IN  /\ Len(history) >= prediction_points
        /\ Len(history) - 2 * prediction_points > 0

(* predict_trend_and_alarm, were a forecast that raised not recorded *)
predict_trend_and_alarm_unrecorded(kks, thresholds, current_data, fc) ==
    IF ~ ForecasterReached(kks) THEN NoPrediction
    ELSE IF ~ fc.ok THEN NoPrediction
    ELSE PredictionResult(fc.values, thresholds, current_data)

(* The forecaster is an external capability: fc.ok = FALSE is a call that
   raised, fc.values the predicted sequence. *)
predict_trend_and_alarm(kks, thresholds, current_data, fc) ==
    IF ~ ForecasterReached(kks) THEN NoPrediction
    ELSE IF ~ fc.ok THEN [NoPrediction EXCEPT !.prediction_error = TRUE]
    ELSE PredictionResult(fc.values, thresholds, current_data)

----------------------------------------------------------------------------
(* One point *)

AnomalyPatternShown(point_result) ==
    /\ point_result.anomaly_probability > anomaly_prob_threshold
    /\ ~ is_data_too_stable(point_result.kks)

FluctuationOverLimit(point_result) ==
    /\ point_result.fluctuation_detected
    /\ point_result.actual_fluctuation.v > time_diff * point_result.fluctuation_range.v

MutationOverLimit(point_result) ==
    /\ point_result.mutation_detected
    /\ point_result.actual_mutation.v > point_result.mutation_range.v

AlarmLevelLabel(alarm_level) ==
    CASE alarm_level = "CRITICAL" -> "critical alarm state"
      [] alarm_level = "HIGH" -> "high alarm state"
      [] alarm_level = "MEDIUM" -> "medium alarm state"
      [] OTHER -> "normal operation"

Clause(cond, text) == IF cond THEN <<text>> ELSE <<>>

generate_point_status_description(point_result) ==
    <<AlarmLevelLabel(point_result.alarm_level)>>
    \o Clause(point_result.trend # "STABLE",
              IF point_result.trend = "INCREASING" THEN "rising trend"
              ELSE "falling trend")
    \o Clause(AnomalyPatternShown(point_result), "anomalous pattern")
    \o Clause(FluctuationOverLimit(point_result), "strong fluctuation")
    \o Clause(MutationOverLimit(point_result), "value mutation")
    \o Clause(point_result.predicted_trend # "STABLE"
              /\ ~ point_result.prediction_error,
              IF point_result.predicted_trend = "INCREASING"
              THEN "predicted rising trend" ELSE "predicted falling trend")
    \o Clause(point_result.prediction_alarm_level # "", "predicted alarm")

(* lines 428-452 and the updates of lines 455-480: the result record *)
PointResult(kks, value, config, alarm_level, trend, anomaly_probability, fluctuation_result, mutation_result, prediction_result) ==
    [kks |-> kks,
     current_value |-> value,
     alarm_level |-> alarm_level,
     status_description |-> <<>>,
     trend |-> trend,
     anomaly_probability |-> anomaly_probability,
     fluctuation_detected |->
         IF config.fluctuation_detection THEN fluctuation_result.detected
         ELSE FALSE,
     mutation_detected |->
         IF config.mutation_detection THEN mutation_result.detected
         ELSE FALSE,
     predicted_trend |-> prediction_result.predicted_trend,
     prediction_error |-> prediction_result.prediction_error,
     prediction_alarm_level |-> prediction_result.prediction_alarm_level,
     predicted_value |-> prediction_result.predicted_value,
     prediction_threshold |-> prediction_result.prediction_threshold,
     time_to_alarm |-> prediction_result.time_to_alarm,
     detailed_prediction |-> prediction_result.detailed_prediction,
     fluctuation_range |-> config.fluctuation_range,
     mutation_range |-> config.mutation_range,
     actual_fluctuation |->
         IF config.fluctuation_detection
         THEN Lit(fluctuation_result.max_fluctuation) ELSE None,
     actual_mutation |->
         IF config.mutation_detection
         THEN Lit(mutation_result.mutation_value) ELSE None]

(* line 482 *)
WithStatusDescription(result) ==
    [result EXCEPT !.status_description = generate_point_status_description(result)]

analyze_single_point(kks, value, current_data, clf, fc) ==
    WithStatusDescription(
        PointResult(kks, value, detection_config[kks],
            check_alarm_thresholds(value, alarm_thresholds[kks], current_data),
            IF Len(HistoryOf(data_history, kks)) > 10 THEN analyze_trend(kks)
            ELSE "STABLE",
            IF Len(HistoryOf(data_history, kks)) > min_data_points
               /\ ~ is_data_too_stable(kks)
            THEN detect_anomalies(kks, clf) ELSE 0,
            detect_fluctuation(kks, detection_config[kks].fluctuation_range),
            detect_mutation(kks, detection_config[kks].mutation_range),
            IF detection_config[kks].trend_prediction
               /\ Len(HistoryOf(data_history, kks)) > prediction_points
            THEN predict_trend_and_alarm(kks, alarm_thresholds[kks], current_data, fc)
            ELSE NoPrediction))

(* A point at a non-normal alarm level taken as a signal *)
detect_anomaly_signals_nonnormal(point_result) ==
    Clause(FluctuationOverLimit(point_result), "strong fluctuation")
    \o Clause(MutationOverLimit(point_result), "value mutation")
    \o Clause(AnomalyPatternShown(point_result), "anomalous pattern")
    \o Clause(point_result.alarm_level # "NORMAL", "alarm state")

detect_anomaly_signals(point_result) ==
    Clause(FluctuationOverLimit(point_result), "strong fluctuation")
    \o Clause(MutationOverLimit(point_result), "value mutation")
    \o Clause(AnomalyPatternShown(point_result), "anomalous pattern")

NoAlarmInfo == [level |-> "", kks |-> "", kind |-> "", triggered_threshold |-> "",
                threshold_value |-> 0, direction |-> ""]

AlarmInfo(level, kks, kind, triggered_threshold, threshold_value, direction) ==
    [level |-> level, kks |-> kks, kind |-> kind,
     triggered_threshold |-> triggered_threshold,
     threshold_value |-> threshold_value, direction |-> direction]

(* lines 247-279: the threshold named in a CRITICAL message; the thresholds
   are resolved against {kks: value}, and the LLL test is not guarded by
   "not triggered_threshold". *)
TriggeredThreshold(kks, value) ==
    LET thresholds == alarm_thresholds[kks]
        current_data == [k \in {kks} |-> value]
        hhh == safe_parse_threshold(thresholds.HHH, current_data)
        lll == safe_parse_threshold(thresholds.LLL, current_data)
        hh  == safe_parse_threshold(thresholds.HH, current_data)
        ll  == safe_parse_threshold(thresholds.LL, current_data)
        h   == safe_parse_threshold(thresholds.H, current_data)
        l   == safe_parse_threshold(thresholds.L, current_data)
    IN  IF Crosses(value, lll, "<=") THEN [name |-> "LLL", value |-> lll.v]
        ELSE IF Crosses(value, hhh, ">=") THEN [name |-> "HHH", value |-> hhh.v]
        ELSE IF Crosses(value, hh, ">=") THEN [name |-> "HH", value |-> hh.v]
        ELSE IF Crosses(value, ll, "<=") THEN [name |-> "LL", value |-> ll.v]
        ELSE IF Crosses(value, h, ">=") THEN [name |-> "H", value |-> h.v]
        ELSE IF Crosses(value, l, "<=") THEN [name |-> "L", value |-> l.v]
        ELSE [name |-> "", value |-> 0]

generate_alarm_info(kks, value, point_result, protection_check) ==
    IF protection_check.is_protection_breach
    THEN AlarmInfo("CRITICAL", kks, "protection", "",
                   protection_check.protection_value,
                   IF protection_check.direction = "above" THEN ">" ELSE "<")
    ELSE IF point_result.alarm_level = "CRITICAL"
    THEN LET triggered == TriggeredThreshold(kks, value)
         IN  IF triggered.name # ""
             THEN AlarmInfo("CRITICAL", kks, "threshold", triggered.name,
                            triggered.value,
                            IF triggered.name \in {"HHH", "HH", "H"} THEN ">" ELSE "<")
             ELSE AlarmInfo("CRITICAL", kks, "status", "", 0, "")
    ELSE IF point_result.alarm_level = "HIGH"
    THEN AlarmInfo("HIGH", kks, "status", "", 0, "")
    ELSE IF point_result.alarm_level = "MEDIUM"
    THEN AlarmInfo("MEDIUM", kks, "status", "", 0, "")
    ELSE NoAlarmInfo

----------------------------------------------------------------------------
(* Escalation cooldown *)

(* AlarmIdentifier, were the last clause of the status description taken *)
AlarmIdentifier_last_clause(kks, point_result, protection_check) ==
    IF protection_check.is_protection_breach
    THEN <<kks, "protection_breach", "">>
    ELSE <<kks, point_result.alarm_level,
           IF point_result.status_description # <<>>
           THEN point_result.status_description[Len(point_result.status_description)]
           ELSE "unknown">>

(* f"{kks}_protection_breach", or f"{kks}_{alarm_level}_{main_anomaly}" with
   main_anomaly the first clause of the status description *)
AlarmIdentifier(kks, point_result, protection_check) ==
    IF protection_check.is_protection_breach
    THEN <<kks, "protection_breach", "">>
    ELSE <<kks, point_result.alarm_level,
           IF point_result.status_description # <<>>
           THEN Head(point_result.status_description) ELSE "unknown">>

(* cleanup_old_alarm_history, were an entry of exactly 24 hours removed *)
cleanup_old_alarm_history_from_24h(send_history, current_time) ==
    LET Kept(kks) == {id \in DOMAIN send_history[kks] :
                        ~ (current_time - send_history[kks][id]
                             >= cleanup_threshold * 3600)}
        left == {kks \in DOMAIN send_history : Kept(kks) # {}}
    IN  [kks \in left |-> [id \in Kept(kks) |-> send_history[kks][id]]]

cleanup_old_alarm_history(send_history, current_time) ==
    LET Kept(kks) == {id \in DOMAIN send_history[kks] :
                        ~ (current_time - send_history[kks][id]
                             > cleanup_threshold * 3600)}
        left == {kks \in DOMAIN send_history : Kept(kks) # {}}
    IN  [kks \in left |-> [id \in Kept(kks) |-> send_history[kks][id]]]

(* The cooldown taken in minutes where the difference is in seconds *)
InCooldown_minutes(send_history, kks, alarm_identifier, current_time) ==
    /\ kks \in DOMAIN send_history
    /\ alarm_identifier \in DOMAIN send_history[kks]
    /\ current_time - send_history[kks][alarm_identifier]
         < alarm_cooldown_hours * 60

InCooldown(send_history, kks, alarm_identifier, current_time) ==
    /\ kks \in DOMAIN send_history
    /\ alarm_identifier \in DOMAIN send_history[kks]
    /\ current_time - send_history[kks][alarm_identifier]
         < alarm_cooldown_hours * 3600

(* should_send_alarm_to_deepseek, were a suppressed occurrence written to
   the table *)
should_send_alarm_to_deepseek_restarts(send_history, kks, point_result, protection_check, current_time) ==
    LET alarm_identifier == AlarmIdentifier(kks, point_result, protection_check)
        old == IF kks \in DOMAIN send_history THEN send_history[kks] ELSE << >>
        entry == [id \in DOMAIN old \cup {alarm_identifier} |->
                    IF id = alarm_identifier THEN current_time ELSE old[id]]
        updated == [k \in DOMAIN send_history \cup {kks} |->
                      IF k = kks THEN entry ELSE send_history[k]]
    IN  IF InCooldown(send_history, kks, alarm_identifier, current_time)
        THEN [send |-> FALSE, history |-> updated]
        ELSE [send |-> TRUE,
              history |-> cleanup_old_alarm_history(updated, current_time)]

(* The decision and the table it leaves behind *)
should_send_alarm_to_deepseek(send_history, kks, point_result, protection_check, current_time) ==
    LET alarm_identifier == AlarmIdentifier(kks, point_result, protection_check)
    IN  IF InCooldown(send_history, kks, alarm_identifier, current_time)
        THEN [send |-> FALSE, history |-> send_history]
        ELSE LET old == IF kks \in DOMAIN send_history THEN send_history[kks]
                        ELSE << >>
                 entry == [id \in DOMAIN old \cup {alarm_identifier} |->
                             IF id = alarm_identifier THEN current_time
                             ELSE old[id]]
                 updated == [k \in DOMAIN send_history \cup {kks} |->
                               IF k = kks THEN entry ELSE send_history[k]]
             IN  [send |-> TRUE,
                  history |-> cleanup_old_alarm_history(updated, current_time)]

create_fault_info(kks, point_result, timestamp, anomaly_signals) ==
    [kks |-> kks,
     timestamp |-> timestamp,
     current_value |-> point_result.current_value,
     alarm_level |-> point_result.alarm_level,
     fluctuation_detected |-> point_result.fluctuation_detected,
     mutation_detected |-> point_result.mutation_detected,
     anomaly_probability |-> point_result.anomaly_probability,
     status_description |-> point_result.status_description,
     anomaly_signals |-> anomaly_signals,
     send_to_deepseek |-> TRUE]

----------------------------------------------------------------------------
(* One analysis cycle *)

EmptyResults(analysis_time) ==
    [timestamp |-> analysis_time,
     overall_health |-> "HEALTHY",
     alarms |-> <<>>,
     warnings |-> <<>>,
     point_analysis |-> << >>,
     risk_level |-> "LOW",
     fault_detected |-> FALSE,
     fault_points |-> <<>>,
     anomaly_signals |-> <<>>,
     prediction_alarms |-> <<>>]

PredictionLevelRank(level) ==
    CASE level = "CRITICAL" -> 3
      [] level = "HIGH" -> 2
      [] level = "MEDIUM" -> 1
      [] OTHER -> 0

(* max(levels, key=rank): the first of the levels of highest rank *)
MaxPredictionLevel(prediction_alarms) ==
    LET ranks == [i \in DOMAIN prediction_alarms |->
                     PredictionLevelRank(prediction_alarms[i].alarm_level)]
        first == CHOOSE i \in DOMAIN prediction_alarms :
                     /\ ranks[i] = SeqMax(ranks)
                     /\ \A j \in 1..(i - 1) : ranks[j] < ranks[i]
    IN  prediction_alarms[first].alarm_level

HealthOf(overall_health, risk_level) ==
    [overall_health |-> overall_health, risk_level |-> risk_level]

(* Two warnings taken as more than two *)
OverallHealth_from_two(results) ==
    LET critical_count == Len(results.alarms)
        warning_count == Len(results.warnings)
        fault_count == Len(results.fault_points)
        prediction_alarm_count == Len(results.prediction_alarms)
    IN  IF critical_count > 0 THEN HealthOf("CRITICAL", "VERY_HIGH")
        ELSE IF warning_count >= 2 THEN HealthOf("WARNING", "HIGH")
        ELSE IF warning_count > 0 THEN HealthOf("ATTENTION", "MEDIUM")
        ELSE IF prediction_alarm_count > 0
        THEN LET max_prediction_level ==
                     MaxPredictionLevel(results.prediction_alarms)
             IN  IF max_prediction_level = "CRITICAL"
                 THEN HealthOf("PREDICTION_CRITICAL", "HIGH")
                 ELSE IF max_prediction_level = "HIGH"
                 THEN HealthOf("PREDICTION_WARNING", "MEDIUM")
                 ELSE HealthOf("PREDICTION_ATTENTION", "LOW_MONITOR")
        ELSE IF fault_count > 0 THEN HealthOf("MONITOR", "LOW_MONITOR")
        ELSE HealthOf("HEALTHY", "LOW")

OverallHealth(results) ==
    LET critical_count == Len(results.alarms)
        warning_count == Len(results.warnings)
        fault_count == Len(results.fault_points)
        prediction_alarm_count == Len(results.prediction_alarms)
    IN  IF critical_count > 0 THEN HealthOf("CRITICAL", "VERY_HIGH")
        ELSE IF warning_count > 2 THEN HealthOf("WARNING", "HIGH")
        ELSE IF warning_count > 0 THEN HealthOf("ATTENTION", "MEDIUM")
        ELSE IF prediction_alarm_count > 0
        THEN LET max_prediction_level ==
                     MaxPredictionLevel(results.prediction_alarms)
             IN  IF max_prediction_level = "CRITICAL"
                 THEN HealthOf("PREDICTION_CRITICAL", "HIGH")
                 ELSE IF max_prediction_level = "HIGH"
                 THEN HealthOf("PREDICTION_WARNING", "MEDIUM")
                 ELSE HealthOf("PREDICTION_ATTENTION", "LOW_MONITOR")
        ELSE IF fault_count > 0 THEN HealthOf("MONITOR", "LOW_MONITOR")
        ELSE HealthOf("HEALTHY", "LOW")

WithHealth(results, health) ==
    [results EXCEPT !.overall_health = health.overall_health,
                    !.risk_level = health.risk_level]

generate_overall_health(results) == WithHealth(results, OverallHealth(results))

(* The points a batch may name, in the order a batch lists them *)
AllKks == <<"P1", "P2", "XQ1">>

BatchOrder(current_data) == SelectSeq(AllKks, LAMBDA kks : kks \in DOMAIN current_data)

(* lines 132-180: what one analysed point adds to the results.  acc holds
   the results built so far, the cooldown table, and the record of the
   cooldown decisions taken (decisions, escalated: history variables). *)
AddPoint(acc, kks, point_result, protection_check, alarm_info, anomaly_signals, decision, key, analysis_time) ==
    [results |->
        [acc.results EXCEPT
           !.point_analysis =
               [k \in DOMAIN acc.results.point_analysis \cup {kks} |->
                  IF k = kks THEN point_result ELSE acc.results.point_analysis[k]],
           !.alarms = IF alarm_info.level = "CRITICAL"
                      THEN Append(@, alarm_info) ELSE @,
           !.warnings = IF alarm_info.level \in {"HIGH", "MEDIUM"}
                        THEN Append(@, alarm_info) ELSE @,
           !.fault_detected = @ \/ anomaly_signals # <<>>,
           !.fault_points =
               IF anomaly_signals # <<>>
               THEN Append(@, [create_fault_info(kks, point_result, analysis_time,
                                                 anomaly_signals)
                                  EXCEPT !.send_to_deepseek = decision.send])
               ELSE @,
           !.anomaly_signals = @ \o anomaly_signals,
           !.prediction_alarms =
               IF point_result.prediction_alarm_level # ""
               THEN Append(@, [kks |-> kks,
                               alarm_level |-> point_result.prediction_alarm_level,
                               predicted_value |-> point_result.predicted_value,
                               threshold |-> point_result.prediction_threshold,
                               time_to_alarm |-> point_result.time_to_alarm])
               ELSE @],
     send_history |-> IF anomaly_signals # <<>> THEN decision.history
                      ELSE acc.send_history,
     decisions |->
        IF anomaly_signals # <<>>
        THEN Append(acc.decisions,
                    [key |-> key, time |-> analysis_time, send |-> decision.send,
                     repeat |-> key \in DOMAIN acc.escalated,
                     last |-> IF key \in DOMAIN acc.escalated
                              THEN acc.escalated[key] ELSE 0])
        ELSE acc.decisions,
     escalated |->
        IF anomaly_signals # <<>> /\ decision.send
        THEN [k \in DOMAIN acc.escalated \cup {key} |->
                IF k = key THEN analysis_time ELSE acc.escalated[k]]
        ELSE acc.escalated,
     breaches |->
        [k \in DOMAIN acc.breaches \cup {kks} |->
           IF k = kks THEN protection_check.is_protection_breach
           ELSE acc.breaches[k]],
     answers |-> acc.answers]

(* lines 138-165: the signals of the point's fault record, none for a point
   without one: a CRITICAL point's record names the alarm, another point's
   its anomaly signals *)
FaultSignals(point_result) ==
    IF point_result.alarm_level = "CRITICAL" THEN <<"critical alarm">>
    ELSE detect_anomaly_signals(point_result)

AnalyzeResult(acc, kks, value, point_result, protection_check, analysis_time) ==
    AddPoint(acc, kks, point_result, protection_check,
             generate_alarm_info(kks, value, point_result, protection_check),
             FaultSignals(point_result),
             should_send_alarm_to_deepseek(acc.send_history, kks, point_result,
                                           protection_check, analysis_time),
             AlarmIdentifier(kks, point_result, protection_check),
             analysis_time)

(* The body of the loop of analyze_current_status for one point *)
AnalyzePoint(acc, kks, current_data, oracle, analysis_time) ==
    IF kks \notin DOMAIN alarm_thresholds THEN acc
    ELSE AnalyzeResult(acc, kks, current_data[kks],
                       analyze_single_point(kks, current_data[kks], current_data,
                                            oracle[kks].clf, oracle[kks].fc),
                       check_protection_thresholds(kks, current_data[kks], current_data),
                       analysis_time)

RECURSIVE AnalyzePoints(_, _, _, _, _)
AnalyzePoints(acc, order, current_data, oracle, analysis_time) ==
    IF order = <<>> THEN acc
    ELSE AnalyzePoints(AnalyzePoint(acc, Head(order), current_data, oracle,
                                    analysis_time),
                       Tail(order), current_data, oracle, analysis_time)

(* line 182 *)
WithOverallHealth(done) ==
    [done EXCEPT !.results = generate_overall_health(done.results)]

analyze_current_status(current_data, oracle) ==
    WithOverallHealth(
        AnalyzePoints([results |-> EmptyResults(now),
                       send_history |-> alarm_send_history,
                       decisions |-> <<>>,
                       escalated |-> cycle.escalated,
                       breaches |-> << >>,
                       answers |-> oracle],
                      BatchOrder(current_data), current_data, oracle, now))

(* The loop of analyze_current_status up to, and without, the i-th point of
   the batch, where it raised *)
analyze_points_before(current_data, oracle, i) ==
    AnalyzePoints([results |-> EmptyResults(now),
                   send_history |-> alarm_send_history,
                   decisions |-> <<>>,
                   escalated |-> cycle.escalated,
                   breaches |-> << >>,
                   answers |-> oracle],
                  SubSeq(BatchOrder(current_data), 1, i - 1), current_data, oracle, now)

----------------------------------------------------------------------------
(* History store *)

max_points == IF 500 > prediction_points * 3 THEN 500 ELSE prediction_points * 3

(* add_data_point, were the newest sample dropped when the history is full *)
add_data_point_keeps_oldest(hist, kks, value) ==
    LET appended == Append(HistoryOf(hist, kks), value)
        kept == IF Len(appended) > max_points THEN SubSeq(appended, 1, max_points)
                ELSE appended
    IN  [k \in DOMAIN hist \cup {kks} |-> IF k = kks THEN kept ELSE hist[k]]

add_data_point(hist, kks, value) ==
    LET appended == Append(HistoryOf(hist, kks), value)
        kept == IF Len(appended) > max_points THEN LastN(appended, max_points)
                ELSE appended
    IN  [k \in DOMAIN hist \cup {kks} |-> IF k = kks THEN kept ELSE hist[k]]

RECURSIVE AddDataPoints(_, _, _)
(* lines 211-212 of _process_received_data: every point of the message *)
AddDataPoints(hist, order, data_points) ==
    IF order = <<>> THEN hist
    ELSE AddDataPoints(add_data_point(hist, Head(order), data_points[Head(order)]),
                       Tail(order), data_points)

----------------------------------------------------------------------------
(* The environment: bounds of the model *)

MaxQueue == 2

MaxHistory == 3

MaxTime == 3660

MaxForecast == 3

(* Seconds by which the clock may advance in one step *)
TimeSteps == {1800, 1860}

ClfProbs == {50, 80, 90}

ClfOutcomes == {[ok |-> FALSE, prob |-> 0]} \cup {[ok |-> TRUE, prob |-> p] : p \in ClfProbs}

NoClf == [ok |-> FALSE, prob |-> 0]

PredValues == {1, 3, 5}

Forecasts == UNION {[1..n -> PredValues] : n \in 0..MaxForecast}

FcOutcomes == {[ok |-> FALSE, values |-> <<>>]} \cup {[ok |-> TRUE, values |-> f] : f \in Forecasts}

NoFc == [ok |-> FALSE, values |-> <<>>]

(* What the two external capabilities may answer for a point in this state:
   one answer per call the cycle makes. *)
PointOracles(kks) ==
    LET clf_called == /\ ClassifierReached(kks) /\ ~ is_data_too_stable(kks)
                      /\ Len(HistoryOf(data_history, kks)) > min_data_points
        fc_called == /\ kks \in DOMAIN detection_config
                     /\ detection_config[kks].trend_prediction
                     /\ Len(HistoryOf(data_history, kks)) > prediction_points
                     /\ ForecasterReached(kks)
    IN  {[clf |-> c, fc |-> f, clf_called |-> clf_called, fc_called |-> fc_called] :
            c \in IF clf_called THEN ClfOutcomes ELSE {NoClf},
            f \in IF fc_called THEN FcOutcomes ELSE {NoFc}}

Oracles(current_data) ==
    LET all == UNION {PointOracles(kks) : kks \in DOMAIN current_data}
    IN  {o \in [DOMAIN current_data -> all] :
            \A kks \in DOMAIN current_data : o[kks] \in PointOracles(kks)}

NoCycle == [current_data |-> << >>, decisions |-> <<>>, escalated |-> << >>,
            breaches |-> << >>, history |-> << >>, answers |-> << >>,
            dropped |-> FALSE]

NoCall == [op |-> "", arg |-> <<>>, ret |-> <<>>]

----------------------------------------------------------------------------
(* The analysis service client: enhanced_deepseek_client.py *)

(* EnhancedDeepSeekClient.__init__: rag_initialized is set when the vector
   database is found *)
EnhancedDeepSeekClient(rag_initialized) ==
    [is_ready |-> FALSE, rag_initialized |-> rag_initialized]

(* What one request to the service's generate endpoint may come to *)
Responses == {"text", "error_status", "empty", "timeout", "connection_error"}

(* A failed request *)
Failures == Responses \ {"text"}

ServiceOutcome(health, rag, raises, first, second) ==
    [health |-> health, rag |-> rag, raises |-> raises, first |-> first,
     second |-> second]

(* What the service answers during one call of analyze_fault: the health
   check (asked only while the client is not ready), an exception raised
   inside the call, the confidence of the retrieval analysis (made only
   when it is initialised), and the answers to the generate requests (the
   second is made only when the first failed).  An answer that is not asked
   for is left at its first value. *)
ServiceOutcomes(client) ==
    LET rag == IF client.rag_initialized THEN "low" ELSE ""
    IN  (IF client.is_ready THEN {}
         ELSE {ServiceOutcome(FALSE, "", FALSE, "text", "text")})
        \cup {ServiceOutcome(TRUE, "", TRUE, "text", "text")}
        \cup (IF client.rag_initialized
              THEN {ServiceOutcome(TRUE, "high", FALSE, "text", "text")}
              ELSE {})
        \cup {ServiceOutcome(TRUE, rag, FALSE, "text", "text")}
        \cup {ServiceOutcome(TRUE, rag, FALSE, first, second) :
                  first \in Failures, second \in Responses}

(* analyze_fault returned None *)
NoAnalysis == [returned |-> FALSE, rag |-> FALSE, original |-> ""]

(* _analyze_with_deepseek: the text of the first request answered, of two *)
analyze_with_deepseek(first, second) ==
    IF first = "text" \/ second = "text" THEN "text" ELSE "None"

(* _send_to_deepseek clears is_ready when the connection fails; the second
   request is made only when the first failed *)
ConnectionLost(first, second) ==
    \/ first = "connection_error"
    \/ first # "text" /\ second = "connection_error"

(* analyze_fault: the dictionary returned, or None, and the client after *)
analyze_fault(client, outcome) ==
    IF ~ client.is_ready /\ ~ outcome.health
    THEN [result |-> NoAnalysis, client |-> client]
    ELSE IF outcome.raises
    THEN [result |-> NoAnalysis, client |-> [client EXCEPT !.is_ready = TRUE]]
    ELSE IF client.rag_initialized /\ outcome.rag = "high"
    THEN [result |-> [returned |-> TRUE, rag |-> TRUE, original |-> ""],
          client |-> [client EXCEPT !.is_ready = TRUE]]
    ELSE [result |-> [returned |-> TRUE, rag |-> client.rag_initialized,
                      original |-> analyze_with_deepseek(outcome.first,
                                                         outcome.second)],
          client |-> [client EXCEPT
                         !.is_ready = ~ ConnectionLost(outcome.first,
                                                       outcome.second)]]

(* The service produced an analysis: the retrieval analysis, or the text of
   a generate request *)
AnalysisSucceeded(result) ==
    result.returned /\ (result.rag \/ result.original = "text")

----------------------------------------------------------------------------
(* Worker loops of main_system.py *)

max_retries == 2

retry_delay == 10

(* No record taken yet by the escalation worker *)
NoEscalation ==
    [state |-> "Idle", fault_info |-> << >>, attempt |-> 0, wake_at |-> 0,
     payloads |-> <<>>]

NoBatches == [received |-> 0, taken |-> <<>>, dropped |-> <<>>, delivered |-> <<>>]

(* The four threads of start *)
Workers == {"receiver", "analyzer", "sender", "deepseek"}

(* "while self.running": a worker reads the flag at the head of each round.
   A round under way when the flag is cleared is finished, and is the
   worker's last. *)
AfterRound(worker) == IF running THEN exited ELSE exited \cup {worker}

(* _data_receiver / _process_received_data: one message from the data source.
   The messages are numbered by their source field. *)
Receive(data_points) ==
    /\ "receiver" \notin exited
    /\ exited' = AfterRound("receiver")
    /\ Len(data_queue) < MaxQueue
    /\ \A kks \in DOMAIN data_points :
           Len(HistoryOf(data_history, kks)) < MaxHistory
    /\ data_history' = AddDataPoints(data_history, BatchOrder(data_points), data_points)
    /\ data_queue' = Append(data_queue, [data_points |-> data_points, timestamp |-> now,
                                         source |-> batches.received + 1])
    /\ batches' = [batches EXCEPT !.received = @ + 1]
    /\ UNCHANGED <<alarm_thresholds, detection_config, alarm_send_history,
                   analysis_results, result_queue, deepseek_queue, now, running,
                   deepseek_client, escalation, cycle, call>>

(* lines 236-237 of _data_analyzer: the result names the source of its batch *)
WithSource(results, data_source) ==
    [f \in DOMAIN results \cup {"data_source"} |->
        IF f = "data_source" THEN data_source ELSE results[f]]

(* Analysed, were every fault record put on the escalation queue *)
Analysed_queues_all(current_data, done, results) ==
    /\ analysis_results' = results
    /\ alarm_send_history' = done.send_history
    /\ result_queue' = Append(result_queue, results)
    /\ deepseek_queue' =
           IF (results.fault_detected \/ results.alarms # <<>>)
              /\ results.fault_points # <<>>
           THEN deepseek_queue \o results.fault_points
           ELSE deepseek_queue
    /\ cycle' = [current_data |-> current_data,
                 decisions |-> done.decisions,
                 escalated |-> done.escalated,
                 breaches |-> done.breaches,
                 history |-> data_history,
                 answers |-> done.answers,
                 dropped |-> FALSE]
    /\ batches' = [batches EXCEPT !.taken = Append(@, results.data_source)]

(* _data_analyzer: one batch taken from data_queue, analysed, its result put
   on result_queue and its fault records marked send_to_deepseek put on
   deepseek_queue (_queue_deepseek_analysis) *)
Analysed(current_data, done, results) ==
    /\ analysis_results' = results
    /\ alarm_send_history' = done.send_history
    /\ result_queue' = Append(result_queue, results)
    /\ deepseek_queue' =
           IF (results.fault_detected \/ results.alarms # <<>>)
              /\ results.fault_points # <<>>
           THEN deepseek_queue
                \o SelectSeq(results.fault_points, LAMBDA f : f.send_to_deepseek)
           ELSE deepseek_queue
    /\ cycle' = [current_data |-> current_data,
                 decisions |-> done.decisions,
                 escalated |-> done.escalated,
                 breaches |-> done.breaches,
                 history |-> data_history,
                 answers |-> done.answers,
                 dropped |-> FALSE]
    /\ batches' = [batches EXCEPT !.taken = Append(@, results.data_source)]

(* Dropped, were the result built so far put on the result queue *)
Dropped_emits_partial(data_source, partial) ==
    /\ alarm_send_history' = partial.send_history
    /\ cycle' = [current_data |-> << >>,
                 decisions |-> partial.decisions,
                 escalated |-> partial.escalated,
                 breaches |-> << >>,
                 history |-> data_history,
                 answers |-> partial.answers,
                 dropped |-> TRUE]
    /\ batches' = [batches EXCEPT !.taken = Append(@, data_source),
                                  !.dropped = Append(@, data_source)]
    /\ result_queue' = Append(result_queue, WithSource(partial.results, data_source))
    /\ UNCHANGED <<analysis_results, deepseek_queue>>

(* lines 255-256 of _data_analyzer: the analysis raised at a point of the
   batch (a value that is not a number reaches the arithmetic of
   _analyze_trend or _detect_mutation, which no except clause guards).  The
   points before it have been analysed: their cooldown decisions stand.
   Nothing is put on a queue. *)
Dropped(data_source, partial) ==
    /\ alarm_send_history' = partial.send_history
    /\ cycle' = [current_data |-> << >>,
                 decisions |-> partial.decisions,
                 escalated |-> partial.escalated,
                 breaches |-> << >>,
                 history |-> data_history,
                 answers |-> partial.answers,
                 dropped |-> TRUE]
    /\ batches' = [batches EXCEPT !.taken = Append(@, data_source),
                                  !.dropped = Append(@, data_source)]
    /\ UNCHANGED <<analysis_results, result_queue, deepseek_queue>>

(* The points of the table among the first n of the batch *)
KnownPoints(current_data) ==
    {i \in 1..Len(BatchOrder(current_data)) :
        BatchOrder(current_data)[i] \in DOMAIN alarm_thresholds}

DataAnalyzer ==
    /\ "analyzer" \notin exited
    /\ exited' = AfterRound("analyzer")
    /\ data_queue # <<>>
    /\ \E oracle \in Oracles(Head(data_queue).data_points) :
           \/ /\ Len(result_queue) < MaxQueue
              /\ Analysed(Head(data_queue).data_points,
                          analyze_current_status(Head(data_queue).data_points, oracle),
                          WithSource(analyze_current_status(Head(data_queue).data_points,
                                                            oracle).results,
                                     Head(data_queue).source))
           \/ \E i \in KnownPoints(Head(data_queue).data_points) :
                  Dropped(Head(data_queue).source,
                          analyze_points_before(Head(data_queue).data_points, oracle, i))
    /\ data_queue' = Tail(data_queue)
    /\ UNCHANGED <<alarm_thresholds, detection_config, data_history, now, running,
                   deepseek_client, escalation, call>>

(* ResultSender, were the newest result taken first *)
ResultSender_newest_first ==
    /\ "sender" \notin exited
    /\ exited' = AfterRound("sender")
    /\ result_queue # <<>>
    /\ result_queue' = SubSeq(result_queue, 1, Len(result_queue) - 1)
    /\ batches' = [batches EXCEPT
                      !.delivered = Append(@, result_queue[Len(result_queue)].data_source)]
    /\ UNCHANGED <<alarm_thresholds, detection_config, data_history,
                   alarm_send_history, analysis_results, data_queue,
                   deepseek_queue, now, running, deepseek_client, escalation,
                   cycle, call>>

(* _result_sender: one result taken from result_queue and sent, best effort *)
ResultSender ==
    /\ "sender" \notin exited
    /\ exited' = AfterRound("sender")
    /\ result_queue # <<>>
    /\ result_queue' = Tail(result_queue)
    /\ batches' = [batches EXCEPT !.delivered = Append(@, Head(result_queue).data_source)]
    /\ UNCHANGED <<alarm_thresholds, detection_config, data_history,
                   alarm_send_history, analysis_results, data_queue,
                   deepseek_queue, now, running, deepseek_client, escalation,
                   cycle, call>>

(* _deepseek_analyzer: one fault record taken from deepseek_queue when the
   worker is at the head of its loop; _process_deepseek_analysis starts its
   first attempt *)
DeepseekAnalyzer ==
    /\ "deepseek" \notin exited
    /\ exited' = AfterRound("deepseek")
    /\ escalation.state \in {"Idle", "Sent", "Abandoned"}
    /\ deepseek_queue # <<>>
    /\ deepseek_queue' = Tail(deepseek_queue)
    /\ escalation' = [state |-> "Sending", fault_info |-> Head(deepseek_queue),
                      attempt |-> 0, wake_at |-> 0, payloads |-> <<>>]
    /\ UNCHANGED <<alarm_thresholds, detection_config, data_history,
                   alarm_send_history, analysis_results, data_queue,
                   result_queue, now, running, deepseek_client, batches,
                   cycle, call>>

(* send_analysis_result: the report of the record and of the analysis *)
Payload(fault_info, analysis_result) ==
    [kks |-> fault_info.kks, timestamp |-> fault_info.timestamp,
     analysis_result |-> analysis_result]

(* lines 376-404: the worker after one attempt that returned answer *)
Attempted(worker, answer, current_time) ==
    IF answer.result.returned
    THEN [worker EXCEPT !.state = "Sent",
                        !.payloads = Append(@, Payload(worker.fault_info,
                                                       answer.result))]
    ELSE IF worker.attempt < max_retries - 1
    THEN [worker EXCEPT !.state = "RetryScheduled",
                        !.wake_at = current_time + retry_delay]
    ELSE [worker EXCEPT !.state = "Abandoned"]

(* DeepseekAttempt, were the cooldown table cleared when a record is abandoned *)
DeepseekAttempt_clears_cooldown ==
    /\ escalation.state = "Sending"
    /\ \E outcome \in ServiceOutcomes(deepseek_client) :
           /\ escalation' = Attempted(escalation,
                                      analyze_fault(deepseek_client, outcome), now)
           /\ deepseek_client' = analyze_fault(deepseek_client, outcome).client
    /\ alarm_send_history' = IF escalation'.state = "Abandoned" THEN << >>
                             ELSE alarm_send_history
    /\ UNCHANGED <<alarm_thresholds, detection_config, data_history,
                   analysis_results, data_queue,
                   result_queue, deepseek_queue, now, running, exited, batches,
                   cycle, call>>

(* One attempt of _process_deepseek_analysis *)
DeepseekAttempt ==
    /\ escalation.state = "Sending"
    /\ \E outcome \in ServiceOutcomes(deepseek_client) :
           /\ escalation' = Attempted(escalation,
                                      analyze_fault(deepseek_client, outcome), now)
           /\ deepseek_client' = analyze_fault(deepseek_client, outcome).client
    /\ UNCHANGED <<alarm_thresholds, detection_config, data_history,
                   alarm_send_history, analysis_results, data_queue,
                   result_queue, deepseek_queue, now, running, exited, batches,
                   cycle, call>>

(* lines 395 and 402: the worker has slept retry_delay; the next attempt *)
DeepseekRetry ==
    /\ escalation.state = "RetryScheduled"
    /\ now >= escalation.wake_at
    /\ escalation' = [escalation EXCEPT !.state = "Sending", !.attempt = @ + 1,
                                        !.wake_at = 0]
    /\ UNCHANGED <<alarm_thresholds, detection_config, data_history,
                   alarm_send_history, analysis_results, data_queue,
                   result_queue, deepseek_queue, now, running, exited, deepseek_client,
                   batches, cycle, call>>

(* stop: the flag every worker loop reads at the head of each round.  stop
   waits up to 5 s for each thread and returns; the threads are daemons. *)
Stop ==
    /\ running
    /\ running' = FALSE
    /\ UNCHANGED <<alarm_thresholds, detection_config, data_history,
                   alarm_send_history, analysis_results, data_queue,
                   result_queue, deepseek_queue, now, exited, deepseek_client,
                   escalation, batches, cycle, call>>

(* A worker finds the flag cleared at the head of a round and leaves *)
Exit(worker) ==
    /\ ~ running
    /\ worker \notin exited
    /\ exited' = exited \cup {worker}
    /\ UNCHANGED <<alarm_thresholds, detection_config, data_history,
                   alarm_send_history, analysis_results, data_queue,
                   result_queue, deepseek_queue, now, running, deepseek_client,
                   escalation, batches, cycle, call>>

(* Time passes *)
Tick(d) ==
    /\ now + d <= MaxTime
    /\ now' = now + d
    /\ UNCHANGED <<alarm_thresholds, detection_config, data_history,
                   alarm_send_history, analysis_results, data_queue,
                   result_queue, deepseek_queue, running, exited, deepseek_client,
                   escalation, batches, cycle, call>>

----------------------------------------------------------------------------
(* Point tables *)

Thresholds(lll, ll, l, h, hh, hhh, lower_limit, upper_limit) ==
    [LLL |-> lll, LL |-> ll, L |-> l, H |-> h, HH |-> hh, HHH |-> hhh,
     lower_limit |-> lower_limit, upper_limit |-> upper_limit]

Detection(fluctuation_detection, fluctuation_range, mutation_detection, mutation_range, trend_prediction) ==
    [fluctuation_detection |-> fluctuation_detection,
     fluctuation_range |-> fluctuation_range,
     mutation_detection |-> mutation_detection,
     mutation_range |-> mutation_range,
     trend_prediction |-> trend_prediction]

NoThresholds == Thresholds(None, None, None, None, None, None, None, None)

NoDetection == Detection(FALSE, None, FALSE, None, FALSE)

(* The state GasTurbineMonitoringSystem.__init__ and initialize() leave, for
   a point table and, where a run is taken up later, the history and the
   batches received so far.  analysis_results is {} before the first cycle:
   the results of a cycle over no point. *)
InitAnalyzer(thresholds, detection, history, queue) ==
    /\ alarm_thresholds = thresholds
    /\ detection_config = detection
    /\ data_history = history
    /\ alarm_send_history = << >>
    /\ analysis_results = EmptyResults(0)
    /\ data_queue = queue
    /\ result_queue = <<>>
    /\ deepseek_queue = <<>>
    /\ now = 0
    /\ running = TRUE
    /\ exited = {}
    /\ escalation = NoEscalation
    /\ batches = NoBatches
    /\ cycle = NoCycle

(* No function applied directly *)
InitEngine(thresholds, detection, history, queue) ==
    /\ InitAnalyzer(thresholds, detection, history, queue)
    /\ deepseek_client = EnhancedDeepSeekClient(FALSE)
    /\ call = NoCall

----------------------------------------------------------------------------
(* The pipeline from start-up *)

(* Point tables of the pipeline runs: P1 with alarm thresholds, with a
   protection limit alone, or with both. *)
PipelineThresholds ==
    {Thresholds(None, None, None, Lit(3), None, Lit(5), None, None),
     Thresholds(None, None, None, None, None, None, None, Lit(4)),
     Thresholds(None, None, None, Lit(3), None, Lit(5), None, Lit(4))}

PipelineDetection == Detection(FALSE, None, TRUE, Lit(2), FALSE)

PipelineValues == {1, 5}

(* P2 is in no point table of the pipeline runs *)
PipelineBatches ==
    [{"P1"} -> PipelineValues] \cup {[k \in {"P1", "P2"} |-> 1]}

Init ==
    \E t \in PipelineThresholds :
        InitEngine([k \in {"P1"} |-> t], [k \in {"P1"} |-> PipelineDetection],
                   << >>, <<>>)

Next ==
    \/ \E data_points \in PipelineBatches : Receive(data_points)
    \/ DataAnalyzer
    \/ ResultSender
    \/ DeepseekAnalyzer
    \/ DeepseekAttempt
    \/ DeepseekRetry
    \/ \E d \in TimeSteps : Tick(d)

Spec == Init /\ [][Next]_vars

----------------------------------------------------------------------------
(* One analysis cycle over a received batch: the analysis worker's step from
   a state in which the batch has been received (its samples appended, the
   batch queued). *)

NextCycle == DataAnalyzer

(* A batch as _process_received_data leaves it on the queue *)
Queued(data_points) == <<[data_points |-> data_points, timestamp |-> 0, source |-> 1]>>

(* The history after a batch over points not seen before *)
FirstSamples(data_points) == [k \in DOMAIN data_points |-> <<data_points[k]>>]

(* Point tables with every numeric combination of the six alarm levels *)
ThresholdLits == {400, 450, 495}

ThresholdValues == {380, 395, 400, 402, 450, 452, 495, 500}

NumericCells == {None} \cup {Lit(x) : x \in ThresholdLits}

InitThreshold ==
    \E lll \in NumericCells, ll \in NumericCells, l \in NumericCells,
       h \in NumericCells, hh \in NumericCells, hhh \in NumericCells,
       value \in ThresholdValues :
        InitEngine([k \in {"P1"} |-> Thresholds(lll, ll, l, h, hh, hhh, None, None)],
                   [k \in {"P1"} |-> NoDetection],
                   FirstSamples([k \in {"P1"} |-> value]),
                   Queued([k \in {"P1"} |-> value]))

SpecThreshold == InitThreshold /\ [][NextCycle]_vars

(* Point tables whose alarm levels are unset, a number, or the name of the
   point XQ1, and batches with and without XQ1 (XQ1 is in no point table) *)
ReferenceCells == {None, Lit(2), Ref("XQ1")}

ReferenceValues == {-1, 0, 1, 2, 3}

ReferenceBatches ==
    [{"P1"} -> ReferenceValues] \cup [{"P1", "XQ1"} -> ReferenceValues]

InitReference ==
    \E lll \in ReferenceCells, ll \in ReferenceCells, l \in ReferenceCells,
       h \in ReferenceCells, hh \in ReferenceCells, hhh \in ReferenceCells,
       data_points \in ReferenceBatches :
        InitEngine([k \in {"P1"} |-> Thresholds(lll, ll, l, h, hh, hhh, None, None)],
                   [k \in {"P1"} |-> NoDetection],
                   FirstSamples(data_points), Queued(data_points))

SpecReference == InitReference /\ [][NextCycle]_vars

----------------------------------------------------------------------------
(* Properties of the threshold evaluation *)

(* The rules of section 4.1, in their order *)
Rules ==
    <<[cell |-> "HHH", op |-> ">=", level |-> "CRITICAL"],
      [cell |-> "LLL", op |-> "<=", level |-> "CRITICAL"],
      [cell |-> "HH", op |-> ">=", level |-> "HIGH"],
      [cell |-> "LL", op |-> "<=", level |-> "HIGH"],
      [cell |-> "H", op |-> ">=", level |-> "MEDIUM"],
      [cell |-> "L", op |-> "<=", level |-> "MEDIUM"]>>

RuleMatches(rule, value, limits) ==
    /\ limits[rule.cell].tag = "lit"
    /\ IF rule.op = ">=" THEN value >= limits[rule.cell].v
       ELSE value <= limits[rule.cell].v

FirstMatchLevel(value, limits) ==
    IF \E i \in DOMAIN Rules : RuleMatches(Rules[i], value, limits)
    THEN LET first == CHOOSE i \in DOMAIN Rules :
                        /\ RuleMatches(Rules[i], value, limits)
                        /\ \A j \in 1..(i - 1) : ~ RuleMatches(Rules[j], value, limits)
         IN  Rules[first].level
    ELSE "NORMAL"

(* The thresholds in force for a batch: a number stays, an unset level and a
   reference to a point the batch does not carry are missing, a reference to
   a point of the batch is that point's value. *)
LimitsInForce(thresholds, current_data) ==
    [c \in {"LLL", "LL", "L", "H", "HH", "HHH"} |->
        IF thresholds[c].tag = "lit" THEN thresholds[c]
        ELSE IF thresholds[c].tag = "ref" /\ thresholds[c].p \in DOMAIN current_data
        THEN Lit(current_data[thresholds[c].p])
        ELSE None]

ExampleThresholds ==
    Thresholds(None, None, None, Lit(400), Lit(450), Lit(495), None, None)

ExampleLevel(value) ==
    CASE value = 380 -> "NORMAL"
      [] value = 395 -> "NORMAL"
      [] value = 402 -> "MEDIUM"
      [] value = 452 -> "HIGH"
      [] value = 500 -> "CRITICAL"
      [] OTHER -> ""

(* C1: with every alarm level unset or a number, the alarm level of an
   analysed point is the level of the first rule, in the order HHH, LLL, HH,
   LL, H, L, that its value matches, and NORMAL if none does; so a value at
   or over HHH, or at or under LLL, is CRITICAL whatever else matches; and
   H=400, HH=450, HHH=495 gives 380, 395 NORMAL, 402 MEDIUM, 452 HIGH and
   500 CRITICAL. *)
C1_ThresholdPrecedence ==
    \A kks \in DOMAIN analysis_results.point_analysis :
        LET point_result == analysis_results.point_analysis[kks]
            value == point_result.current_value
            thresholds == alarm_thresholds[kks]
        IN  /\ point_result.alarm_level = FirstMatchLevel(value, thresholds)
            /\ (thresholds.HHH.tag = "lit" /\ value >= thresholds.HHH.v)
                  => point_result.alarm_level = "CRITICAL"
            /\ (thresholds.LLL.tag = "lit" /\ value <= thresholds.LLL.v)
                  => point_result.alarm_level = "CRITICAL"
            /\ (thresholds = ExampleThresholds /\ ExampleLevel(value) # "")
                  => point_result.alarm_level = ExampleLevel(value)

(* A point analysed as CRITICAL because it is over HHH while it is over HH
   and H as well *)
C1_Witness ==
    /\ "P1" \in DOMAIN analysis_results.point_analysis
    /\ alarm_thresholds["P1"] = ExampleThresholds
    /\ analysis_results.point_analysis["P1"].current_value = 500
    /\ analysis_results.point_analysis["P1"].alarm_level = "CRITICAL"

(* C8: an unset alarm level takes part in no comparison (it is not 0), and
   a level that names a point the batch does not carry is treated as unset:
   the point's alarm level is the first matching rule over the thresholds in
   force, and the cycle ends with the point analysed and its result queued. *)
C8_MissingThresholdSkipped ==
    cycle.current_data # << >> =>
        /\ "P1" \in DOMAIN analysis_results.point_analysis
        /\ result_queue = <<analysis_results>>
        /\ LET point_result == analysis_results.point_analysis["P1"]
           IN  point_result.alarm_level =
                   FirstMatchLevel(point_result.current_value,
                                   LimitsInForce(alarm_thresholds["P1"],
                                                 cycle.current_data))

(* A value of 0 analysed as NORMAL with LLL unset and L naming a point the
   batch does not carry *)
C8_Witness ==
    /\ cycle.current_data # << >>
    /\ "XQ1" \notin DOMAIN cycle.current_data
    /\ alarm_thresholds["P1"].LLL = None
    /\ alarm_thresholds["P1"].L = Ref("XQ1")
    /\ alarm_thresholds["P1"].HHH = Lit(2)
    /\ analysis_results.point_analysis["P1"].current_value = 0
    /\ analysis_results.point_analysis["P1"].alarm_level = "NORMAL"

----------------------------------------------------------------------------
(* Properties of a cycle's fault records and of the escalation cooldown *)

SixLevelsUnset(thresholds) ==
    \A c \in {"LLL", "LL", "L", "H", "HH", "HHH"} : thresholds[c] = None

FaultRecordsOf(kks) ==
    {i \in DOMAIN analysis_results.fault_points :
        analysis_results.fault_points[i].kks = kks}

DecisionsOf(kks) ==
    {i \in DOMAIN cycle.decisions : cycle.decisions[i].key[1] = kks}

(* C2: a point over its upper or under its lower protection limit, with the
   six alarm levels unset, has a fault record in the cycle's result, the
   cooldown decision is taken for it, and if its key was not escalated
   before the record is marked for the escalation queue. *)
C2_ProtectionBreachEscalated ==
    \A kks \in DOMAIN cycle.breaches :
        (cycle.breaches[kks] /\ SixLevelsUnset(alarm_thresholds[kks])) =>
            /\ FaultRecordsOf(kks) # {}
            /\ DecisionsOf(kks) # {}
            /\ (\A j \in DecisionsOf(kks) : ~ cycle.decisions[j].repeat) =>
                 \A i \in FaultRecordsOf(kks) :
                     analysis_results.fault_points[i].send_to_deepseek

(* C3: for one key (point, alarm signature): a fault at less than one hour
   after the key's last escalation is not escalated, a fault at more than
   one hour after it is (30 minutes after: no; 61 minutes after: yes), so
   two escalations of a key are at least an hour apart. *)
C3_CooldownWindow ==
    \A i \in DOMAIN cycle.decisions :
        LET d == cycle.decisions[i]
        IN  d.repeat =>
              /\ d.time < d.last + 3600 => ~ d.send
              /\ d.time > d.last + 3600 => d.send
              /\ d.time = d.last + 1800 => ~ d.send
              /\ d.time = d.last + 3660 => d.send
              /\ d.send => d.time - d.last >= 3600

(* A key escalated again 61 minutes after its last escalation, with a
   suppressed cycle in between *)
C3_Witness ==
    \E i \in DOMAIN cycle.decisions :
        LET d == cycle.decisions[i]
        IN  /\ d.repeat /\ d.send /\ d.time = d.last + 3660
            /\ Len(data_history[d.key[1]]) >= 3

----------------------------------------------------------------------------
(* One cycle over a point with a short history: fluctuation and mutation *)

MaxDetectLen == 6

DetectValues == {300, 325, 340}

DetectHistories == UNION {[1..n -> DetectValues] : n \in 1..MaxDetectLen}

FluctuationLimits == {None, Lit(5), Lit(8)}

MutationLimits == {None, Lit(25)}

InitDetect ==
    \E history \in DetectHistories,
       fluctuation_detection \in BOOLEAN, fluctuation_range \in FluctuationLimits,
       mutation_detection \in BOOLEAN, mutation_range \in MutationLimits :
        InitEngine([k \in {"P1"} |-> NoThresholds],
                   [k \in {"P1"} |->
                       Detection(fluctuation_detection, fluctuation_range,
                                 mutation_detection, mutation_range, FALSE)],
                   [k \in {"P1"} |-> history],
                   Queued([k \in {"P1"} |-> history[Len(history)]]))

SpecDetect == InitDetect /\ [][NextCycle]_vars

(* C5: the fluctuation flag of an analysed point is set iff fluctuation
   detection is enabled, the point has at least 5 samples and the largest
   |v[i] - v[i-1]| / 5 over the last 5 samples is strictly greater than the
   fluctuation limit; the mutation flag is set iff mutation detection is
   enabled, the point has at least 3 samples and |v_last - v_prev| is
   strictly greater than the mutation limit.  With limit 5 the samples
   300, 300, 300, 300, 340 give rate 8 (40 / 5) and the flag set. *)
C5_FluctuationMutationFlags ==
    "P1" \in DOMAIN analysis_results.point_analysis =>
        LET r == analysis_results.point_analysis["P1"]
            h == cycle.history["P1"]
            n == Len(h)
            config == detection_config["P1"]
        IN  /\ r.fluctuation_detected <=>
                  /\ config.fluctuation_detection
                  /\ n >= 5
                  /\ config.fluctuation_range.tag = "lit"
                  /\ \E i \in (n - 3)..n :
                        Abs(h[i] - h[i - 1]) > 5 * config.fluctuation_range.v
            /\ r.mutation_detected <=>
                  /\ config.mutation_detection
                  /\ n >= 3
                  /\ config.mutation_range.tag = "lit"
                  /\ Abs(h[n] - h[n - 1]) > config.mutation_range.v
            /\ (/\ config.fluctuation_detection
                /\ config.fluctuation_range = Lit(5)
                /\ h = <<300, 300, 300, 300, 340>>) =>
                  r.fluctuation_detected /\ r.actual_fluctuation = Lit(8 * 5)

(* The example's samples analysed with limit 5 *)
C5_Witness ==
    /\ "P1" \in DOMAIN analysis_results.point_analysis
    /\ cycle.history["P1"] = <<300, 300, 300, 300, 340>>
    /\ detection_config["P1"].fluctuation_detection
    /\ detection_config["P1"].fluctuation_range = Lit(5)
    /\ analysis_results.point_analysis["P1"].fluctuation_detected
    /\ analysis_results.point_analysis["P1"].mutation_detected

----------------------------------------------------------------------------
(* One cycle over a point with a long history: the stability gate *)

MaxPrefix == 12

StableValues == {-5, 0, 5}

Deviations == {1, 100}

Flat(c, n) == [i \in 1..n |-> c]

(* The last 20 samples: all c, or all c but one *)
Windows(c) ==
    {Flat(c, 20)}
    \cup {[Flat(c, 20) EXCEPT ![j] = c + d] : j \in 1..20, d \in Deviations}

(* The samples before the last 20 *)
Prefixes(c) == {Flat(x, m) : x \in {c, c + 100}, m \in 0..MaxPrefix}

StabilityThresholds ==
    {NoThresholds, Thresholds(None, None, None, None, None, Lit(5), None, None)}

InitStability ==
    \E c \in StableValues, t \in StabilityThresholds :
        \E window \in Windows(c), prefix \in Prefixes(c) :
            InitEngine([k \in {"P1"} |-> t],
                       [k \in {"P1"} |-> NoDetection],
                       [k \in {"P1"} |-> prefix \o window],
                       Queued([k \in {"P1"} |-> window[20]]))

SpecStability == InitStability /\ [][NextCycle]_vars

FlatWindow(h) ==
    /\ Len(h) >= 20
    /\ \A i \in (Len(h) - 19)..Len(h) : h[i] = h[Len(h)]

(* C4: an analysed point whose last 20 or more samples all have the same
   value, of any sign or 0, has no "anomalous pattern" clause in its status
   description and no fault record that names a pattern anomaly, whatever
   the classifier answers. *)
C4_StabilityGate ==
    ("P1" \in DOMAIN analysis_results.point_analysis
       /\ FlatWindow(cycle.history["P1"])) =>
        LET r == analysis_results.point_analysis["P1"]
        IN  /\ \A i \in DOMAIN r.status_description :
                  r.status_description[i] # "anomalous pattern"
            /\ \A i \in FaultRecordsOf("P1") :
                  \A j \in DOMAIN analysis_results.fault_points[i].anomaly_signals :
                      analysis_results.fault_points[i].anomaly_signals[j]
                          # "anomalous pattern"
            /\ \A j \in DOMAIN analysis_results.anomaly_signals :
                  analysis_results.anomaly_signals[j] # "anomalous pattern"

(* A point analysed over more than 30 samples, the last 20 of them 0 *)
C4_Witness ==
    /\ "P1" \in DOMAIN analysis_results.point_analysis
    /\ FlatWindow(cycle.history["P1"])
    /\ Len(cycle.history["P1"]) > 30
    /\ cycle.history["P1"][Len(cycle.history["P1"])] = 0
    /\ cycle.history["P1"][1] = 100

----------------------------------------------------------------------------
(* One cycle over a batch of several points: alarms, warnings, fault records *)

CorrelateValues == {1, 3, 5}

(* Alarm levels alone, none, a protection limit alone, both *)
CorrelateThresholds ==
    {Thresholds(Lit(1), None, None, Lit(3), None, Lit(5), None, None),
     NoThresholds,
     Thresholds(None, None, None, None, None, None, None, Lit(3)),
     Thresholds(None, None, None, None, Lit(3), None, Lit(3), Lit(3))}

CorrelateDetection ==
    {NoDetection, Detection(TRUE, Lit(0), TRUE, Lit(2), FALSE)}

(* Histories that end with the batch's value: 1, 3, 5 and 31 samples *)
CorrelateHistories(value) == {Append(Flat(3, n), value) : n \in {0, 2, 4, 30}}

(* The second point of the table *)
SecondThresholds ==
    {Thresholds(None, None, Lit(1), None, None, Lit(5), None, None),
     Thresholds(None, None, None, None, None, None, Lit(3), None)}

InitCorrelate ==
    \E t1 \in CorrelateThresholds, d1 \in CorrelateDetection,
       v1 \in CorrelateValues, others \in SUBSET {"P2", "XQ1"} :
      \E h1 \in CorrelateHistories(v1), t2 \in SecondThresholds,
         v2 \in CorrelateValues :
        /\ others = {} => v2 = 1
        /\ LET data_points == [k \in {"P1"} \cup others |->
                                 IF k = "P1" THEN v1 ELSE v2]
           IN  InitEngine([k \in {"P1", "P2"} |-> IF k = "P1" THEN t1 ELSE t2],
                          [k \in {"P1", "P2"} |->
                              IF k = "P1" THEN d1
                              ELSE Detection(FALSE, None, TRUE, Lit(2), FALSE)],
                          [k \in {"P1"} \cup others |->
                              IF k = "P1" THEN h1 ELSE <<3, 3, v2>>],
                          Queued(data_points))

SpecCorrelate == InitCorrelate /\ [][NextCycle]_vars

(* The points of the cycle's batch that are in the point table *)
AnalysedPoints == DOMAIN cycle.current_data \cap DOMAIN alarm_thresholds

(* A value over the upper or under the lower protection limit in force *)
Breached(kks) ==
    LET value == cycle.current_data[kks]
        limit(c) ==
            IF alarm_thresholds[kks][c].tag = "lit" THEN alarm_thresholds[kks][c]
            ELSE IF alarm_thresholds[kks][c].tag = "ref"
                    /\ alarm_thresholds[kks][c].p \in DOMAIN cycle.current_data
            THEN Lit(cycle.current_data[alarm_thresholds[kks][c].p])
            ELSE None
    IN  \/ limit("upper_limit").tag = "lit" /\ value > limit("upper_limit").v
        \/ limit("lower_limit").tag = "lit" /\ value < limit("lower_limit").v

CriticalPoint(kks) ==
    \/ analysis_results.point_analysis[kks].alarm_level = "CRITICAL"
    \/ Breached(kks)

AlarmsOf(kks) ==
    {i \in DOMAIN analysis_results.alarms : analysis_results.alarms[i].kks = kks}

(* C9: in a cycle every analysed point that is CRITICAL or over a protection
   limit has exactly one entry in the critical alarms, no other point has
   one, and the overall health is CRITICAL with risk VERY_HIGH iff there is
   such a point. *)
C9_CriticalAlarms ==
    cycle # NoCycle =>
        /\ DOMAIN analysis_results.point_analysis = AnalysedPoints
        /\ \A kks \in AnalysedPoints :
              Cardinality(AlarmsOf(kks)) = IF CriticalPoint(kks) THEN 1 ELSE 0
        /\ \A i \in DOMAIN analysis_results.alarms :
              analysis_results.alarms[i].kks \in AnalysedPoints
        /\ (analysis_results.overall_health = "CRITICAL"
              /\ analysis_results.risk_level = "VERY_HIGH")
             <=> \E kks \in AnalysedPoints : CriticalPoint(kks)
        /\ analysis_results.overall_health = "CRITICAL"
             <=> analysis_results.risk_level = "VERY_HIGH"

(* Two analysed points with an alarm each, one CRITICAL by level and one by
   a protection limit alone, and a third point of the batch without *)
C9_Witness ==
    /\ cycle # NoCycle
    /\ Len(analysis_results.alarms) = 2
    /\ Cardinality(DOMAIN cycle.current_data) = 3
    /\ \E kks \in AnalysedPoints :
          Breached(kks) /\ analysis_results.point_analysis[kks].alarm_level = "NORMAL"
    /\ \E kks \in AnalysedPoints :
          ~ Breached(kks)
          /\ analysis_results.point_analysis[kks].alarm_level = "CRITICAL"

(* A fluctuation, a mutation or a pattern anomaly that qualifies *)
QualifyingSignal(kks) ==
    LET r == analysis_results.point_analysis[kks]
    IN  \/ r.fluctuation_detected
           /\ r.actual_fluctuation.v > 5 * r.fluctuation_range.v
        \/ r.mutation_detected /\ r.actual_mutation.v > r.mutation_range.v
        \/ r.anomaly_probability > 80 /\ ~ is_data_too_stable(kks)

(* C10: in a cycle that ran to its end every analysed point has at most one fault record, and
   has one iff it is CRITICAL or has a qualifying signal; a HIGH or MEDIUM
   point without a signal has none; the cooldown decision is taken at most
   once for a point, and only for a point with a fault record. *)
C10_FaultRecords ==
    (cycle # NoCycle /\ ~ cycle.dropped) =>
        /\ \A kks \in AnalysedPoints :
              LET r == analysis_results.point_analysis[kks]
              IN  /\ Cardinality(FaultRecordsOf(kks))
                        = IF r.alarm_level = "CRITICAL" \/ QualifyingSignal(kks)
                          THEN 1 ELSE 0
                  /\ (r.alarm_level \in {"HIGH", "MEDIUM"} /\ ~ QualifyingSignal(kks))
                        => FaultRecordsOf(kks) = {}
                  /\ Cardinality(DecisionsOf(kks)) = Cardinality(FaultRecordsOf(kks))
        /\ \A i \in DOMAIN analysis_results.fault_points :
              analysis_results.fault_points[i].kks \in AnalysedPoints
        /\ Len(cycle.decisions) = Len(analysis_results.fault_points)

(* A cycle with a CRITICAL point that also has signals (one record), a
   MEDIUM or HIGH point without a signal (none), and two warnings or alarms *)
C10_Witness ==
    /\ cycle # NoCycle
    /\ \E kks \in AnalysedPoints :
          /\ analysis_results.point_analysis[kks].alarm_level = "CRITICAL"
          /\ QualifyingSignal(kks)
          /\ analysis_results.point_analysis[kks].anomaly_probability > 80
          /\ Cardinality(FaultRecordsOf(kks)) = 1
    /\ \E kks \in AnalysedPoints :
          /\ analysis_results.point_analysis[kks].alarm_level \in {"HIGH", "MEDIUM"}
          /\ FaultRecordsOf(kks) = {}

----------------------------------------------------------------------------
(* One cycle over a point with trend prediction: the prediction alarm *)

(* Enough samples for the forecaster to be called: more than two windows *)
PredictHistory == Flat(3, 2 * prediction_points + 1)

PredictThresholds ==
    {Thresholds(lll, ll, l, h, hh, hhh, None, None) :
        lll \in {None, Lit(1)}, ll \in {None, Lit(1), Lit(3)}, l \in {None, Lit(3)},
        h \in {None, Lit(3)}, hh \in {None, Lit(3), Lit(5)}, hhh \in {None, Lit(5)}}

InitPredict ==
    \E t \in PredictThresholds :
        InitEngine([k \in {"P1"} |-> t],
                   [k \in {"P1"} |-> Detection(FALSE, None, FALSE, None, TRUE)],
                   [k \in {"P1"} |-> PredictHistory],
                   Queued([k \in {"P1"} |-> 3]))

SpecPredict == InitPredict /\ [][NextCycle]_vars

(* The forecast the cycle got for P1, and whether its i-th value crosses a
   configured threshold *)
ForecastOf(kks) == analysis_results.point_analysis[kks].detailed_prediction

CrossesAny(value, limits) ==
    \E i \in DOMAIN Rules : RuleMatches(Rules[i], value, limits)

(* C7: the prediction alarm of a point is taken from the first value of the
   forecast that crosses a configured threshold, with the level CRITICAL
   (HHH/LLL) before HIGH (HH/LL) before MEDIUM (H/L) at that value and the
   time to the alarm 5 seconds times the value's position counted from 1;
   a forecast with no crossing value gives no prediction alarm. *)
C7_PredictionAlarm ==
    "P1" \in DOMAIN analysis_results.point_analysis =>
        LET r == analysis_results.point_analysis["P1"]
            p == ForecastOf("P1")
            limits == LimitsInForce(alarm_thresholds["P1"], cycle.current_data)
            crossing == {i \in DOMAIN p : CrossesAny(p[i].predicted_value, limits)}
        IN  IF crossing = {}
            THEN /\ r.prediction_alarm_level = ""
                 /\ r.time_to_alarm = None
                 /\ analysis_results.prediction_alarms = <<>>
            ELSE LET first == CHOOSE i \in crossing : \A j \in crossing : i <= j
                 IN  /\ r.prediction_alarm_level
                           = FirstMatchLevel(p[first].predicted_value, limits)
                     /\ r.predicted_value = Lit(p[first].predicted_value)
                     /\ r.time_to_alarm = Lit(first * 5)
                     /\ Len(analysis_results.prediction_alarms) = 1
                     /\ analysis_results.prediction_alarms[1].alarm_level
                           = r.prediction_alarm_level
                     /\ analysis_results.prediction_alarms[1].time_to_alarm
                           = r.time_to_alarm

(* A forecast whose second value crosses H and whose third crosses HHH: the
   alarm is the MEDIUM one, 10 seconds ahead *)
C7_Witness ==
    /\ "P1" \in DOMAIN analysis_results.point_analysis
    /\ Len(ForecastOf("P1")) = 3
    /\ ForecastOf("P1")[1].predicted_value = 1
    /\ ForecastOf("P1")[2].predicted_value = 3
    /\ ForecastOf("P1")[3].predicted_value = 5
    /\ alarm_thresholds["P1"].H = Lit(3)
    /\ alarm_thresholds["P1"].HHH = Lit(5)
    /\ analysis_results.point_analysis["P1"].prediction_alarm_level = "MEDIUM"
    /\ analysis_results.point_analysis["P1"].time_to_alarm = Lit(10)

----------------------------------------------------------------------------
(* _generate_overall_health applied to the results of a cycle's loop *)

MaxAlarms == 2

MaxWarnings == 3

MaxFaults == 2

MaxPredictionAlarms == 2

PredictionLevels == {"MEDIUM", "HIGH", "CRITICAL"}

(* Results with given numbers of entries; the table reads the numbers and
   the levels of the prediction alarms only *)
LoopResults(alarms, warnings, faults, levels) ==
    [EmptyResults(0) EXCEPT
        !.alarms = [i \in 1..alarms |-> NoAlarmInfo],
        !.warnings = [i \in 1..warnings |-> NoAlarmInfo],
        !.fault_detected = faults > 0,
        !.fault_points = [i \in 1..faults |-> [kks |-> "P1"]],
        !.prediction_alarms = [i \in DOMAIN levels |-> [alarm_level |-> levels[i]]]]

InitHealth ==
    \E alarms \in 0..MaxAlarms, warnings \in 0..MaxWarnings, faults \in 0..MaxFaults,
       n \in 0..MaxPredictionAlarms :
        \E levels \in [1..n -> PredictionLevels] :
            /\ InitAnalyzer(<< >>, << >>, << >>, <<>>)
            /\ deepseek_client = EnhancedDeepSeekClient(FALSE)
            /\ call = [op |-> "", arg |-> LoopResults(alarms, warnings, faults, levels),
                       ret |-> <<>>]

GenerateOverallHealth ==
    /\ call.op = ""
    /\ call' = [call EXCEPT !.op = "_generate_overall_health",
                            !.ret = generate_overall_health(call.arg)]
    /\ UNCHANGED <<alarm_thresholds, detection_config, data_history,
                   alarm_send_history, analysis_results, data_queue,
                   result_queue, deepseek_queue, now, running, exited, deepseek_client,
                   escalation, batches, cycle>>

NextHealth == GenerateOverallHealth

SpecHealth == InitHealth /\ [][NextHealth]_vars

HasLevel(prediction_alarms, level) ==
    \E i \in DOMAIN prediction_alarms : prediction_alarms[i].alarm_level = level

(* The table of section 4.5, first matching row *)
HealthTable(alarms, warnings, faults, prediction_alarms) ==
    IF alarms >= 1 THEN <<"CRITICAL", "VERY_HIGH">>
    ELSE IF warnings > 2 THEN <<"WARNING", "HIGH">>
    ELSE IF warnings \in {1, 2} THEN <<"ATTENTION", "MEDIUM">>
    ELSE IF HasLevel(prediction_alarms, "CRITICAL") THEN <<"PREDICTION_CRITICAL", "HIGH">>
    ELSE IF HasLevel(prediction_alarms, "HIGH") THEN <<"PREDICTION_WARNING", "MEDIUM">>
    ELSE IF HasLevel(prediction_alarms, "MEDIUM")
    THEN <<"PREDICTION_ATTENTION", "LOW_MONITOR">>
    ELSE IF faults >= 1 THEN <<"MONITOR", "LOW_MONITOR">>
    ELSE <<"HEALTHY", "LOW">>

(* C6: for every combination of numbers of critical alarms, warnings, fault
   records and prediction alarms with their levels, the overall health and
   the risk level are the first matching row of the table; exactly 2
   warnings give ATTENTION, exactly 3 give WARNING. *)
C6_OverallHealthTable ==
    call.op = "_generate_overall_health" =>
        LET row == HealthTable(Len(call.arg.alarms), Len(call.arg.warnings),
                               Len(call.arg.fault_points), call.arg.prediction_alarms)
        IN  /\ call.ret.overall_health = row[1]
            /\ call.ret.risk_level = row[2]
            /\ (call.arg.alarms = <<>> /\ Len(call.arg.warnings) = 2)
                  => call.ret.overall_health = "ATTENTION"
            /\ (call.arg.alarms = <<>> /\ Len(call.arg.warnings) = 3)
                  => call.ret.overall_health = "WARNING"

(* Exactly two warnings, no critical alarm, with prediction alarms and a
   fault record lower in the table *)
C6_Witness ==
    /\ call.op = "_generate_overall_health"
    /\ call.arg.alarms = <<>>
    /\ Len(call.arg.warnings) = 2
    /\ Len(call.arg.fault_points) = 1
    /\ HasLevel(call.arg.prediction_alarms, "CRITICAL")
    /\ call.ret.overall_health = "ATTENTION"
    /\ call.ret.risk_level = "MEDIUM"

----------------------------------------------------------------------------
(* The pipeline: what is put on the queues *)

Elements(queue) == {queue[i] : i \in DOMAIN queue}

(* The last cycle ran to its end *)
Completed == cycle # NoCycle /\ ~ cycle.dropped

(* The result of the last cycle is on the result queue or has been sent *)
Emitted(results) ==
    \/ results \in Elements(result_queue)
    \/ results.data_source \in Elements(batches.delivered)

(* The cooldown decisions of the last cycle that suppressed the escalation *)
Suppressed == {i \in DOMAIN cycle.decisions : ~ cycle.decisions[i].send}

(* C11: a fault record whose escalation the cooldown suppresses is in the
   fault records of the result emitted for its batch, it is the record of
   the point with nothing but the escalation flag changed, and no record
   with the flag cleared is on the escalation queue or taken from it. *)
C11_SuppressedRecordKept ==
    /\ Completed =>
          /\ Emitted(analysis_results)
          /\ \A i \in Suppressed :
                /\ i \in DOMAIN analysis_results.fault_points
                /\ LET f == analysis_results.fault_points[i]
                       r == analysis_results.point_analysis[f.kks]
                   IN  /\ f.kks = cycle.decisions[i].key[1]
                       /\ f = [create_fault_info(f.kks, r, analysis_results.timestamp,
                                                 FaultSignals(r))
                                  EXCEPT !.send_to_deepseek = FALSE]
    /\ \A f \in Elements(deepseek_queue) : f.send_to_deepseek
    /\ escalation.state # "Idle" => escalation.fault_info.send_to_deepseek

(* A repeat inside the window: its record is in the result on the result
   queue, flag cleared, and the escalation queue holds nothing of the cycle *)
C11_Witness ==
    /\ Completed
    /\ analysis_results \in Elements(result_queue)
    /\ \E i \in Suppressed :
          /\ cycle.decisions[i].repeat
          /\ i \in DOMAIN analysis_results.fault_points
          /\ ~ analysis_results.fault_points[i].send_to_deepseek
          /\ \A f \in Elements(deepseek_queue) :
                f.timestamp # analysis_results.timestamp


----------------------------------------------------------------------------
(* The escalation worker alone, over fault records already on its queue *)

MaxRecords == 2

(* A fault record as _queue_deepseek_analysis puts it on the queue *)
QueuedRecord(kks) ==
    [kks |-> kks,
     timestamp |-> 0,
     current_value |-> 5,
     alarm_level |-> "CRITICAL",
     fluctuation_detected |-> FALSE,
     mutation_detected |-> FALSE,
     anomaly_probability |-> 0,
     status_description |-> <<"over HHH">>,
     anomaly_signals |-> <<"critical alarm">>,
     send_to_deepseek |-> TRUE]

EscalationQueues ==
    UNION {[1..n -> {QueuedRecord(kks) : kks \in {"P1", "P2"}}] : n \in 1..MaxRecords}

InitEscalation ==
    \E queue \in EscalationQueues, rag_initialized \in BOOLEAN :
        /\ alarm_thresholds = << >>
        /\ detection_config = << >>
        /\ data_history = << >>
        /\ alarm_send_history = << >>
        /\ analysis_results = EmptyResults(0)
        /\ data_queue = <<>>
        /\ result_queue = <<>>
        /\ deepseek_queue = queue
        /\ now = 0
        /\ running = TRUE
        /\ exited = {}
        /\ deepseek_client = EnhancedDeepSeekClient(rag_initialized)
        /\ escalation = NoEscalation
        /\ batches = NoBatches
        /\ cycle = NoCycle
        /\ call = NoCall

(* lines 395 and 402: time.sleep(retry_delay) in the escalation worker *)
Sleep ==
    /\ escalation.state = "RetryScheduled"
    /\ now < escalation.wake_at
    /\ Tick(retry_delay)

NextEscalation ==
    \/ DeepseekAnalyzer
    \/ DeepseekAttempt
    \/ DeepseekRetry
    \/ Sleep

SpecEscalation == InitEscalation /\ [][NextEscalation]_vars

(* C12: a payload is forwarded for a record only if the record is marked
   for escalation and the analysis service produced an analysis of it; no
   payload is forwarded for a record on which every request failed; at most
   one payload is forwarded for a record. *)
C12_PayloadOnlyOnSuccess ==
    /\ Len(escalation.payloads) <= 1
    /\ \A i \in DOMAIN escalation.payloads :
          /\ escalation.fault_info.send_to_deepseek
          /\ AnalysisSucceeded(escalation.payloads[i].analysis_result)

(* C13: a record taken from the queue is Sending; a Sending record becomes
   Sent, RetryScheduled or Abandoned; a RetryScheduled record is Sending
   again no sooner than 10 s after the failed attempt; a record is
   Abandoned only after 2 retries; after Sent or Abandoned the worker takes
   the next record of the queue. *)
C13_RetriedTwiceThenAbandoned ==
    [][escalation' # escalation =>
         /\ escalation.state \in {"Idle", "Sent", "Abandoned"} =>
               /\ deepseek_queue # <<>>
               /\ escalation'.state = "Sending"
               /\ escalation'.fault_info = Head(deepseek_queue)
               /\ escalation'.attempt = 0
         /\ escalation.state = "Sending" =>
               /\ escalation'.state \in {"Sent", "RetryScheduled", "Abandoned"}
               /\ escalation'.state = "RetryScheduled" =>
                     escalation'.wake_at = now + 10
               /\ escalation'.state = "Abandoned" => escalation.attempt = 2
         /\ escalation.state = "RetryScheduled" =>
               /\ escalation'.state = "Sending"
               /\ escalation'.attempt = escalation.attempt + 1
               /\ now >= escalation.wake_at]_vars


----------------------------------------------------------------------------
(* The pipeline: an abandoned escalation and the cooldown *)

(* The cooldown key of a fault record *)
KeyOf(f) ==
    AlarmIdentifier(f.kks, f,
                    check_protection_thresholds(f.kks, f.current_value,
                                                [k \in {f.kks} |-> f.current_value]))

(* C14: when the escalation of a record has ended Abandoned the cooldown
   table holds for the record's key a timestamp no older than the record's;
   a fault of the same key decided less than an hour after the record is
   not marked for escalation, and no record of the key younger than that is
   on the escalation queue. *)
C14_AbandonedKeepsCooldown ==
    escalation.state = "Abandoned" =>
        LET f == escalation.fault_info
            key == KeyOf(f)
        IN  /\ f.kks \in DOMAIN alarm_send_history
            /\ key \in DOMAIN alarm_send_history[f.kks]
            /\ alarm_send_history[f.kks][key] >= f.timestamp
            /\ \A i \in DOMAIN cycle.decisions :
                  LET d == cycle.decisions[i]
                  IN  (d.key = key /\ d.repeat /\ d.time >= f.timestamp
                         /\ d.time < f.timestamp + 3600) => ~ d.send
            /\ \A g \in Elements(deepseek_queue) :
                  KeyOf(g) = key => g.timestamp >= f.timestamp + 3600

(* A record abandoned after its attempts, and a fault of its key 30 minutes
   after it left without escalation *)
C14_Witness ==
    /\ escalation.state = "Abandoned"
    /\ escalation.attempt = max_retries - 1
    /\ Completed
    /\ \E i \in DOMAIN cycle.decisions :
          LET d == cycle.decisions[i]
          IN  /\ d.key = KeyOf(escalation.fault_info)
              /\ d.repeat /\ ~ d.send
              /\ d.last = escalation.fault_info.timestamp
              /\ d.time = d.last + 1800
              /\ i \in DOMAIN analysis_results.fault_points
              /\ ~ analysis_results.fault_points[i].send_to_deepseek
    /\ deepseek_queue = <<>>


----------------------------------------------------------------------------
(* The receiver, the analysis worker and the result sender from start-up;
   each worker loop polls its queue for ever, so a worker that can take a
   step takes one in the end *)

NextBatches ==
    \/ \E data_points \in PipelineBatches : Receive(data_points)
    \/ DataAnalyzer
    \/ ResultSender

(* lines 229-231 of _data_analyzer: the worker, in its loop, takes the batch
   at the head of the queue; what it does with it is DataAnalyzer *)
TakeBatch ==
    /\ "analyzer" \notin exited
    /\ data_queue # <<>>
    /\ data_queue' = Tail(data_queue)

SpecBatches ==
    Init /\ [][NextBatches]_vars /\ WF_data_queue(TakeBatch) /\ WF_vars(ResultSender)

(* The batches on the ingestion queue *)
QueuedSources == {data_queue[i].source : i \in DOMAIN data_queue}

(* The sources of the results on the result queue *)
ResultSources == {result_queue[i].data_source : i \in DOMAIN result_queue}

(* The analysis worker has just given up a batch *)
DropsBatch == batches'.dropped # batches.dropped

(* C15: a batch whose analysis fails is taken from the queue once and is
   not put back; no result of it is put on the result queue or sent, no
   fault record is put on the escalation queue in the step that drops it,
   and the last result kept by the analyzer is not replaced; the worker
   keeps running, and every batch on the ingestion queue is taken by the
   analysis worker in the end, whatever became of the batches before it. *)
C15_FailedBatchDropped ==
    /\ [](\A s \in Elements(batches.dropped) :
              /\ s \notin ResultSources
              /\ s \notin Elements(batches.delivered)
              /\ s \notin QueuedSources
              /\ Cardinality({i \in DOMAIN batches.taken : batches.taken[i] = s}) = 1)
    /\ [][DropsBatch =>
            /\ batches'.dropped = Append(batches.dropped, Head(data_queue).source)
            /\ data_queue' = Tail(data_queue)
            /\ UNCHANGED <<result_queue, deepseek_queue, analysis_results, running>>
            /\ running => "analyzer" \notin exited']_vars
    /\ \A s \in 1..MaxHistory :
          (s \in QueuedSources) ~> (s \in Elements(batches.taken))

(* A batch dropped, and the batch received after it analysed with its result
   on the result queue *)
C15_Witness ==
    /\ batches.dropped # <<>>
    /\ \E s \in Elements(batches.dropped) :
          /\ s + 1 \in ResultSources
          /\ s + 1 \notin Elements(batches.dropped)
    /\ Completed
    /\ analysis_results.fault_points # <<>>


(* The sources of the results on the result queue, in the queue's order *)
ResultSourceSeq == [i \in DOMAIN result_queue |-> result_queue[i].data_source]

(* C16: under every interleaving of the receiver, the analysis worker and
   the result sender, the batches are taken for analysis in the order of
   their arrival, each once (the n-th batch taken is the n-th received, the
   batches still queued follow in order), and the results sent and waiting
   to be sent are, in order, those of the batches taken and not dropped. *)
C16_ArrivalOrder ==
    /\ \A i \in DOMAIN batches.taken : batches.taken[i] = i
    /\ \A i \in DOMAIN data_queue : data_queue[i].source = Len(batches.taken) + i
    /\ Len(batches.taken) + Len(data_queue) = batches.received
    /\ batches.delivered \o ResultSourceSeq
         = SelectSeq(batches.taken, LAMBDA s : s \notin Elements(batches.dropped))

(* Three batches in flight: the results of the first two wait on the result
   queue in order while the third waits for analysis *)
C16_Witness ==
    /\ Len(result_queue) = 2
    /\ ResultSourceSeq = <<1, 2>>
    /\ Len(data_queue) = 1
    /\ data_queue[1].source = 3
    /\ batches.taken = <<1, 2>>


----------------------------------------------------------------------------
(* The history store: add_data_point applied to histories short and full.
   A sample is numbered by its arrival at its point. *)

MaxAdds == 3

(* The samples a point holds after n arrivals *)
Arrived(n) ==
    [i \in 1..(IF n > max_points THEN max_points ELSE n) |->
        (IF n > max_points THEN n - max_points ELSE 0) + i]

(* Numbers of arrivals before the calls: none, few, and around the capacity *)
Arrivals == {0, 1, max_points - 1, max_points, max_points + 1}

InitHistory ==
    \E arrived \in [{"P1", "P2"} -> Arrivals] :
        /\ InitAnalyzer(<< >>, << >>,
                        [k \in {kks \in {"P1", "P2"} : arrived[kks] > 0} |->
                            Arrived(arrived[k])],
                        <<>>)
        /\ deepseek_client = EnhancedDeepSeekClient(FALSE)
        /\ call = [op |-> "", arg |-> [arrived |-> arrived, adds |-> 0, kks |-> ""],
                   ret |-> << >>]

(* add_data_point(kks, value, timestamp); ret keeps the histories before *)
AddDataPoint(kks) ==
    /\ call.arg.adds < MaxAdds
    /\ data_history' = add_data_point(data_history, kks, call.arg.arrived[kks] + 1)
    /\ call' = [op |-> "add_data_point",
                arg |-> [arrived |-> [call.arg.arrived EXCEPT ![kks] = @ + 1],
                         adds |-> call.arg.adds + 1, kks |-> kks],
                ret |-> data_history]
    /\ UNCHANGED <<alarm_thresholds, detection_config, alarm_send_history,
                   analysis_results, data_queue, result_queue, deepseek_queue,
                   now, running, exited, deepseek_client, escalation, batches, cycle>>

NextHistory == \E kks \in {"P1", "P2"} : AddDataPoint(kks)

SpecHistory == InitHistory /\ [][NextHistory]_vars

(* C17: after any calls of add_data_point a point holds at most 500
   samples, they are the last to arrive at the point in the order of their
   arrival, and a call for one point leaves the history of every other
   point as it was. *)
C17_HistoryWindow ==
    /\ max_points = 500
    /\ \A kks \in DOMAIN data_history :
          LET h == data_history[kks]
              n == call.arg.arrived[kks]
          IN  /\ Len(h) <= 500
              /\ Len(h) = IF n > 500 THEN 500 ELSE n
              /\ \A i \in DOMAIN h : h[i] = n - Len(h) + i
    /\ call.op = "add_data_point" =>
          /\ DOMAIN data_history = DOMAIN call.ret \cup {call.arg.kks}
          /\ \A kks \in DOMAIN call.ret :
                kks # call.arg.kks => data_history[kks] = call.ret[kks]

(* A full history that has lost its oldest samples to the last calls, next
   to a short one the calls left alone *)
C17_Witness ==
    /\ call.op = "add_data_point"
    /\ call.arg.kks = "P1"
    /\ call.arg.adds = MaxAdds
    /\ Len(data_history["P1"]) = 500
    /\ data_history["P1"][1] = 3
    /\ data_history["P1"][500] = 502
    /\ "P2" \in DOMAIN data_history
    /\ data_history["P2"] = <<1>>


----------------------------------------------------------------------------
(* Shutdown: the receiver, the analysis worker and the result sender, and
   stop() called at any moment *)

NextShutdown ==
    \/ NextBatches
    \/ Stop
    \/ \E worker \in Workers : Exit(worker)

SpecShutdown == Init /\ [][NextShutdown]_vars

(* C18: on shutdown the receiver has left its loop before the analysis
   worker leaves its own, the analysis worker leaves no received batch on
   the ingestion queue, and every batch taken for analysis has its result
   put on the result queue or is dropped as a whole. *)
C18_DrainedOnShutdown ==
    /\ "analyzer" \in exited => "receiver" \in exited
    /\ ("analyzer" \in exited /\ "receiver" \in exited) => data_queue = <<>>
    /\ \A s \in Elements(batches.taken) :
          \/ s \in Elements(batches.dropped)
          \/ s \in ResultSources \cup Elements(batches.delivered)


----------------------------------------------------------------------------
(* One cycle in which the classifier or the forecaster may raise *)

DegradedValues == {1, 3, 5}

(* Histories that end with the batch's value: 31 samples, enough for the
   classifier alone, and more than two prediction windows, enough for the
   forecaster too.  A last value other than 3 makes the window unstable, so
   that the classifier is called. *)
DegradedHistories(value) ==
    {Append(Flat(3, n), value) : n \in {min_data_points, 2 * prediction_points}}

DegradedThresholds ==
    {Thresholds(Lit(1), None, None, Lit(3), None, Lit(5), None, None),
     NoThresholds}

InitDegraded ==
    \E t1 \in DegradedThresholds, v1 \in DegradedValues, v2 \in DegradedValues,
       others \in SUBSET {"P2"} :
      \E h1 \in DegradedHistories(v1), h2 \in DegradedHistories(v2) :
        /\ others = {} => (v2 = 1 /\ Len(h2) = min_data_points + 1)
        /\ InitEngine([k \in {"P1", "P2"} |->
                          IF k = "P1" THEN t1
                          ELSE Thresholds(None, None, Lit(1), None, Lit(5), None,
                                          None, None)],
                      [k \in {"P1", "P2"} |->
                          IF k = "P1" THEN Detection(TRUE, Lit(0), TRUE, Lit(1), TRUE)
                          ELSE Detection(FALSE, None, TRUE, Lit(1), FALSE)],
                      [k \in {"P1"} \cup others |-> IF k = "P1" THEN h1 ELSE h2],
                      Queued([k \in {"P1"} \cup others |->
                                 IF k = "P1" THEN v1 ELSE v2]))

SpecDegraded == InitDegraded /\ [][NextCycle]_vars

(* The cycle called the classifier for the point and the call raised *)
ClassifierFailed(kks) ==
    /\ Len(HistoryOf(cycle.history, kks)) > min_data_points
    /\ ~ is_data_too_stable(kks)
    /\ ClassifierReached(kks)
    /\ ~ cycle.answers[kks].clf.ok

(* The cycle called the forecaster for the point and the call raised *)
ForecastFailed(kks) ==
    /\ detection_config[kks].trend_prediction
    /\ Len(HistoryOf(cycle.history, kks)) > prediction_points
    /\ ForecasterReached(kks)
    /\ ~ cycle.answers[kks].fc.ok

(* C19: in a cycle that ran to its end, a point whose forecast call raised has
   predicted trend STABLE, no prediction alarm and a recorded prediction
   error; a point whose classifier call raised has anomaly probability 0; in
   both cases the point's alarm level, fluctuation and mutation results are
   those its value and history give, every point of the batch that the table
   knows has its result, and the cycle's result is emitted. *)
C19_DegradedGracefully ==
    Completed =>
      \A kks \in AnalysedPoints :
        LET r == analysis_results.point_analysis[kks]
            value == cycle.current_data[kks]
            fluctuation == detect_fluctuation(kks, detection_config[kks].fluctuation_range)
            mutation == detect_mutation(kks, detection_config[kks].mutation_range)
        IN  /\ ForecastFailed(kks) =>
                /\ r.predicted_trend = "STABLE"
                /\ r.prediction_alarm_level = ""
                /\ r.detailed_prediction = <<>>
                /\ r.prediction_error
                /\ \A i \in DOMAIN analysis_results.prediction_alarms :
                       analysis_results.prediction_alarms[i].kks # kks
            /\ ClassifierFailed(kks) => r.anomaly_probability = 0
            /\ (ForecastFailed(kks) \/ ClassifierFailed(kks)) =>
                /\ r.alarm_level = check_alarm_thresholds(value, alarm_thresholds[kks],
                                                          cycle.current_data)
                /\ r.fluctuation_detected =
                       (detection_config[kks].fluctuation_detection
                        /\ fluctuation.detected)
                /\ r.mutation_detected =
                       (detection_config[kks].mutation_detection /\ mutation.detected)
                /\ detection_config[kks].fluctuation_detection =>
                       r.actual_fluctuation = Lit(fluctuation.max_fluctuation)
                /\ detection_config[kks].mutation_detection =>
                       r.actual_mutation = Lit(mutation.mutation_value)
                /\ DOMAIN analysis_results.point_analysis = AnalysedPoints
                /\ Emitted(analysis_results)

(* Both calls raised for P1, which is at CRITICAL with a mutation over the
   limit, and P2, analysed after it, has its result with the probability the
   classifier gave for it *)
C19_Witness ==
    /\ Completed
    /\ AnalysedPoints = {"P1", "P2"}
    /\ ForecastFailed("P1")
    /\ ClassifierFailed("P1")
    /\ analysis_results.point_analysis["P1"].prediction_error
    /\ analysis_results.point_analysis["P1"].alarm_level = "CRITICAL"
    /\ analysis_results.point_analysis["P1"].mutation_detected
    /\ cycle.answers["P2"].clf.ok
    /\ analysis_results.point_analysis["P2"].anomaly_probability = 90
    /\ Emitted(analysis_results)


----------------------------------------------------------------------------
(* The threshold named in a critical alarm *)

(* The threshold of the point's table in column c, resolved against the
   whole batch as _check_alarm_thresholds resolves it *)
ResolvedLimit(kks, c) ==
    safe_parse_threshold(alarm_thresholds[kks][c], cycle.current_data)

(* The levels the point's value crossed, of the first rank in the order of
   _check_alarm_thresholds (HHH and LLL, then HH and LL, then H and L) at
   which it crossed any *)
CrossedLevels(kks) ==
    LET value == cycle.current_data[kks]
        Over(c) == {n \in {c} : Crosses(value, ResolvedLimit(kks, n), ">=")}
        Under(c) == {n \in {c} : Crosses(value, ResolvedLimit(kks, n), "<=")}
    IN  IF Over("HHH") \cup Under("LLL") # {} THEN Over("HHH") \cup Under("LLL")
        ELSE IF Over("HH") \cup Under("LL") # {} THEN Over("HH") \cup Under("LL")
        ELSE Over("H") \cup Under("L")

(* C20: in a cycle that ran to its end, the critical alarm of a point at
   alarm level CRITICAL with no protection breach names a threshold level,
   the level named is one the value crossed and of the first rank in the
   evaluator's order (HHH/LLL, then HH/LL, then H/L) at which it crossed any,
   over the thresholds as the evaluator resolved them, references to another
   point of the batch included, and the limit shown is that level's resolved
   threshold. *)
C20_MessageNamesCrossedLevel ==
    Completed =>
      \A kks \in AnalysedPoints :
        (analysis_results.point_analysis[kks].alarm_level = "CRITICAL"
           /\ ~ Breached(kks)) =>
          \A i \in AlarmsOf(kks) :
            /\ analysis_results.alarms[i].kind = "threshold"
            /\ analysis_results.alarms[i].triggered_threshold \in CrossedLevels(kks)
            /\ analysis_results.alarms[i].threshold_value =
                  ResolvedLimit(kks, analysis_results.alarms[i].triggered_threshold).v
            /\ analysis_results.alarms[i].direction =
                  IF analysis_results.alarms[i].triggered_threshold
                       \in {"HHH", "HH", "H"}
                  THEN ">" ELSE "<"

----------------------------------------------------------------------------
(* One cycle over histories around the prediction horizon *)

(* One sample less than the horizon, the horizon, one more; and the same
   around two windows *)
HorizonLengths ==
    {prediction_points - 1, prediction_points, prediction_points + 1,
     2 * prediction_points, 2 * prediction_points + 1, 2 * prediction_points + 2}

HorizonValues == {1, 3, 5}

InitHorizon ==
    \E n \in HorizonLengths, value \in HorizonValues, trend_prediction \in BOOLEAN,
       hhh \in {None, Lit(5)} :
        InitEngine([k \in {"P1"} |-> Thresholds(None, None, None, Lit(3), None, hhh,
                                                 None, None)],
                   [k \in {"P1"} |-> Detection(FALSE, None, FALSE, None,
                                               trend_prediction)],
                   [k \in {"P1"} |-> Append(Flat(3, n - 1), value)],
                   Queued([k \in {"P1"} |-> value]))

SpecHorizon == InitHorizon /\ [][NextCycle]_vars

(* line 704: the query handed to the forecaster, values[-window_size:] *)
X_pred(kks) == LastN(HistoryOf(data_history, kks), prediction_points)

(* reg_predictor.predict was called for the point in the last cycle: its
   result carries the forecast or the error of the call that raised, or the
   forecaster answered with no value at all *)
ForecasterRan(kks) ==
    \/ analysis_results.point_analysis[kks].detailed_prediction # <<>>
    \/ analysis_results.point_analysis[kks].prediction_error
    \/ cycle.answers[kks].fc.ok

(* C21 as stated: for a point with trend prediction enabled the forecaster
   runs in a cycle exactly when the point's history holds at least the
   prediction horizon of 36 samples. *)
C21_RunsFromHorizon ==
    Completed =>
      \A kks \in AnalysedPoints :
        detection_config[kks].trend_prediction =>
          (ForecasterRan(kks)
             <=> Len(HistoryOf(data_history, kks)) >= prediction_points)

(* C21 amended: for a point with trend prediction enabled the forecaster
   runs in a cycle, with the newest 36 samples as its query, exactly when the
   point's history holds at least 73 samples, more than two windows of 36;
   for a point without trend prediction it never runs. *)
C21_RunsFromTwoWindows ==
    Completed =>
      \A kks \in AnalysedPoints :
        /\ detection_config[kks].trend_prediction =>
             (ForecasterRan(kks)
                <=> Len(HistoryOf(data_history, kks)) >= 2 * prediction_points + 1)
        /\ ForecasterRan(kks) =>
             /\ detection_config[kks].trend_prediction
             /\ Len(X_pred(kks)) = prediction_points
             /\ X_pred(kks)[prediction_points] = cycle.current_data[kks]

(* The forecaster ran on a history of 73 samples and gave a forecast *)
C21_Witness ==
    /\ Completed
    /\ "P1" \in AnalysedPoints
    /\ Len(HistoryOf(data_history, "P1")) = 2 * prediction_points + 1
    /\ analysis_results.point_analysis["P1"].detailed_prediction # <<>>
    /\ analysis_results.point_analysis["P1"].predicted_trend = "INCREASING"


----------------------------------------------------------------------------
(* The pattern-anomaly path and the length of the history *)

(* clf_predictor.predict was called for the point in the last cycle *)
ClassifierRan(kks) == cycle.answers[kks].clf_called

(* C22: in a cycle that ran to its end, a point whose history holds at least
   30 samples goes through the pattern-anomaly path: a window that the
   stability gate lets through is handed to the classifier, whose answer is
   the point's anomaly probability, and a window that it stops is not; a
   point with fewer than 30 samples is not handed to the classifier and its
   anomaly probability is 0. *)
C22_PatternPathFrom30 ==
    Completed =>
      \A kks \in AnalysedPoints :
        LET n == Len(HistoryOf(data_history, kks))
            r == analysis_results.point_analysis[kks]
        IN  /\ n < min_data_points =>
                (~ ClassifierRan(kks) /\ r.anomaly_probability = 0)
            /\ (n >= min_data_points /\ ~ is_data_too_stable(kks)) =>
                /\ ClassifierRan(kks)
                /\ cycle.answers[kks].clf.ok =>
                     r.anomaly_probability = Clamp(cycle.answers[kks].clf.prob)
            /\ (n >= min_data_points /\ is_data_too_stable(kks)) =>
                ~ ClassifierRan(kks)


----------------------------------------------------------------------------
(* The cooldown step alone: calls of _should_send_alarm_to_deepseek at chosen
   times of the clock *)

MaxCalls == 3

(* 09:00, 09:45 and 10:05 of one day, 09:00 and 09:45 of the next *)
ClockTimes == {0, 2700, 3900, 86400, 89100}

(* What the detectors found for the point of a call: a fluctuation, a
   mutation, or a pattern anomaly *)
CooldownSignals ==
    {[fluctuation |-> [detected |-> TRUE, max_fluctuation |-> 2],
      mutation |-> [detected |-> FALSE, mutation_value |-> 0],
      anomaly_probability |-> 0],
     [fluctuation |-> [detected |-> FALSE, max_fluctuation |-> 0],
      mutation |-> [detected |-> TRUE, mutation_value |-> 2],
      anomaly_probability |-> 0],
     [fluctuation |-> [detected |-> FALSE, max_fluctuation |-> 0],
      mutation |-> [detected |-> FALSE, mutation_value |-> 0],
      anomaly_probability |-> 90]}

(* The faults of the calls: P1 at CRITICAL with any of the signals, P1 at
   HIGH with or without a protection breach, P2 at CRITICAL *)
CooldownFaults ==
    {[kks |-> "P1", alarm_level |-> "CRITICAL", breach |-> FALSE, signals |-> s] :
        s \in CooldownSignals}
    \cup {[kks |-> k, alarm_level |-> l, breach |-> b,
           signals |-> CHOOSE s \in CooldownSignals : s.mutation.detected] :
             k \in {"P1"}, l \in {"HIGH"}, b \in BOOLEAN}
    \cup {[kks |-> "P2", alarm_level |-> "CRITICAL", breach |-> FALSE,
           signals |-> CHOOSE s \in CooldownSignals : s.mutation.detected]}

(* The point result of a fault *)
FaultResult(fault) ==
    WithStatusDescription(
        PointResult(fault.kks, 3, Detection(TRUE, Lit(0), TRUE, Lit(1), FALSE),
                    fault.alarm_level, "STABLE", fault.signals.anomaly_probability,
                    fault.signals.fluctuation, fault.signals.mutation, NoPrediction))

InitCooldown ==
    /\ InitAnalyzer(<< >>, << >>, << >>, <<>>)
    /\ deepseek_client = EnhancedDeepSeekClient(FALSE)
    /\ call = [op |-> "", arg |-> <<>>, ret |-> << >>, log |-> <<>>]

(* One call; ret keeps the table before the call, log the calls so far *)
Decided(kks, point_result, breach, key, decision) ==
    /\ alarm_send_history' = decision.history
    /\ call' = [op |-> "should_send_alarm_to_deepseek",
                arg |-> [kks |-> kks, key |-> key, time |-> now],
                ret |-> [send |-> decision.send, before |-> alarm_send_history],
                log |-> Append(call.log,
                               [kks |-> kks, key |-> key, time |-> now,
                                send |-> decision.send,
                                alarm_level |-> point_result.alarm_level,
                                breach |-> breach,
                                status_description |->
                                    point_result.status_description])]

ShouldSendAlarm ==
    /\ Len(call.log) < MaxCalls
    /\ \E fault \in CooldownFaults :
          LET point_result == FaultResult(fault)
              protection_check == [is_protection_breach |-> fault.breach]
          IN  Decided(fault.kks, point_result, fault.breach,
                      AlarmIdentifier(fault.kks, point_result, protection_check),
                      should_send_alarm_to_deepseek(alarm_send_history, fault.kks,
                                                    point_result, protection_check,
                                                    now))
    /\ UNCHANGED <<alarm_thresholds, detection_config, data_history,
                   analysis_results, data_queue, result_queue, deepseek_queue,
                   now, running, exited, deepseek_client, escalation, batches, cycle>>

(* The clock moves on to a later one of the chosen times *)
ClockTick ==
    /\ \E t \in ClockTimes : t > now /\ now' = t
    /\ UNCHANGED <<alarm_thresholds, detection_config, data_history,
                   alarm_send_history, analysis_results, data_queue, result_queue,
                   deepseek_queue, running, exited, deepseek_client, escalation,
                   batches, cycle, call>>

NextCooldown == ShouldSendAlarm \/ ClockTick

SpecCooldown == InitCooldown /\ [][NextCooldown]_vars

(* The entries of a cooldown table: <<point, alarm identifier>> *)
Entries(send_history) ==
    UNION {{<<kks, id>> : id \in DOMAIN send_history[kks]} : kks \in DOMAIN send_history}

(* The calls before the j-th that were made for its key *)
EarlierCalls(j) == {i \in 1..(j - 1) : call.log[i].key = call.log[j].key}

(* C23: a call returns shouldEscalate=true iff no earlier call for the same
   key returned true less than 60 minutes before it, whatever calls were
   suppressed in between; a call changes or adds no entry of the table but
   that of its own key and only when it returns true, and a call that
   returns false leaves the whole table as it was; so occurrences of one key
   at 09:00, 09:45 and 10:05 yield true, false, true. *)
C23_SuppressedKeepsCooldown ==
    /\ \A j \in DOMAIN call.log :
          call.log[j].send <=>
            ~ \E i \in EarlierCalls(j) :
                  /\ call.log[i].send
                  /\ call.log[j].time - call.log[i].time < alarm_cooldown_hours * 3600
    /\ call.op = "should_send_alarm_to_deepseek" =>
          /\ ~ call.ret.send => alarm_send_history = call.ret.before
          /\ \A e \in Entries(alarm_send_history) :
                (e \notin Entries(call.ret.before)
                   \/ alarm_send_history[e[1]][e[2]] # call.ret.before[e[1]][e[2]]) =>
                    /\ call.ret.send
                    /\ e = <<call.arg.kks, call.arg.key>>
                    /\ alarm_send_history[e[1]][e[2]] = call.arg.time
    /\ \A j \in DOMAIN call.log :
          (\E i \in EarlierCalls(j) : call.log[i].time = 0) =>
            /\ call.log[j].time = 2700 => ~ call.log[j].send
            /\ (call.log[j].time = 3900
                  /\ \A i \in EarlierCalls(j) : call.log[i].time < 3900)
                 => call.log[j].send

(* One key at 09:00, 09:45 and 10:05: escalated, suppressed, escalated *)
C23_Witness ==
    /\ Len(call.log) = 3
    /\ call.log[1].key = call.log[2].key /\ call.log[2].key = call.log[3].key
    /\ call.log[1].time = 0 /\ call.log[1].send
    /\ call.log[2].time = 2700 /\ ~ call.log[2].send
    /\ call.log[3].time = 3900 /\ call.log[3].send
    /\ alarm_send_history[call.arg.kks][call.arg.key] = 3900


----------------------------------------------------------------------------
(* The purge of the cooldown table *)

(* The table of the last call with the timestamp of its key written, before
   the purge *)
Written ==
    LET before == call.ret.before
        old == IF call.arg.kks \in DOMAIN before THEN before[call.arg.kks] ELSE << >>
    IN  [k \in DOMAIN before \cup {call.arg.kks} |->
           IF k = call.arg.kks
           THEN [id \in DOMAIN old \cup {call.arg.key} |->
                   IF id = call.arg.key THEN call.arg.time ELSE old[id]]
           ELSE before[k]]

(* C24: a call that returns shouldEscalate=true leaves in the table exactly
   the entries, its own included, that are not older than 24 hours, with
   their timestamps, and no point without an entry; so the entry just written
   and every entry written less than an hour ago are kept. *)
C24_PurgeOlderThanDay ==
    (call.op = "should_send_alarm_to_deepseek" /\ call.ret.send) =>
      /\ Entries(alarm_send_history) =
            {e \in Entries(Written) :
                call.arg.time - Written[e[1]][e[2]] <= cleanup_threshold * 3600}
      /\ \A e \in Entries(alarm_send_history) :
            alarm_send_history[e[1]][e[2]] = Written[e[1]][e[2]]
      /\ \A kks \in DOMAIN alarm_send_history : DOMAIN alarm_send_history[kks] # {}
      /\ <<call.arg.kks, call.arg.key>> \in Entries(alarm_send_history)
      /\ \A e \in Entries(call.ret.before) :
            call.arg.time - call.ret.before[e[1]][e[2]] < alarm_cooldown_hours * 3600
              => e \in Entries(alarm_send_history)

(* At 09:45 of the second day a call for a key of P1 returns true: the entry
   of P2, written at 09:00 of the first day, is removed and P2 with it; the
   entry written at 09:00 of the second day is kept *)
C24_Witness ==
    /\ call.op = "should_send_alarm_to_deepseek"
    /\ call.ret.send
    /\ call.arg.time = 89100
    /\ call.arg.kks = "P1"
    /\ "P2" \in DOMAIN call.ret.before
    /\ "P2" \notin DOMAIN alarm_send_history
    /\ \E e \in Entries(call.ret.before) \cap Entries(alarm_send_history) :
          call.ret.before[e[1]][e[2]] = 86400


----------------------------------------------------------------------------
(* The alarm signature and the anomaly signals *)

(* The calls before the j-th for the same point at the same alarm level,
   neither a protection breach *)
SameLevelCalls(j) ==
    {i \in 1..(j - 1) : /\ call.log[i].kks = call.log[j].kks
                        /\ call.log[i].alarm_level = call.log[j].alarm_level
                        /\ ~ call.log[i].breach /\ ~ call.log[j].breach}

(* C28: the key of a fault that is no protection breach is made of the point,
   its alarm level and the label of that level, the first clause of the
   status description; two such faults of one point at one level have the
   same key whatever their status descriptions say of fluctuation, mutation
   or pattern anomaly, and the second, less than an hour after the first
   was escalated, is not escalated. *)
C28_SignatureByLevel ==
    \A j \in DOMAIN call.log :
        /\ ~ call.log[j].breach =>
              /\ call.log[j].status_description[1]
                    = AlarmLevelLabel(call.log[j].alarm_level)
              /\ call.log[j].key = <<call.log[j].kks, call.log[j].alarm_level,
                                     AlarmLevelLabel(call.log[j].alarm_level)>>
        /\ \A i \in SameLevelCalls(j) :
              /\ call.log[i].key = call.log[j].key
              /\ (call.log[i].send
                    /\ call.log[j].time - call.log[i].time < alarm_cooldown_hours * 3600)
                   => ~ call.log[j].send

(* P1 at CRITICAL with a fluctuation, escalated at 09:00, and at CRITICAL
   with a pattern anomaly, suppressed at 09:45 *)
C28_Witness ==
    /\ Len(call.log) >= 2
    /\ call.log[1].kks = "P1" /\ call.log[2].kks = "P1"
    /\ call.log[1].alarm_level = "CRITICAL" /\ call.log[2].alarm_level = "CRITICAL"
    /\ call.log[1].status_description = <<"critical alarm state", "strong fluctuation">>
    /\ call.log[2].status_description = <<"critical alarm state", "anomalous pattern">>
    /\ call.log[1].time = 0 /\ call.log[1].send
    /\ call.log[2].time = 2700 /\ ~ call.log[2].send


----------------------------------------------------------------------------
(* The predicted trend of a forecast, values of either sign *)

MaxTrendLen == 3

(* Values around 20 and -20 and their 5% bands, and 0 *)
TrendValues == {-22, -21, -20, 0, 20, 21, 22}

TrendForecasts == UNION {[1..n -> TrendValues] : n \in 0..MaxTrendLen}

InitTrend ==
    /\ InitAnalyzer(<< >>, << >>, << >>, <<>>)
    /\ deepseek_client = EnhancedDeepSeekClient(FALSE)
    /\ \E pred_values \in TrendForecasts :
          call = [op |-> "", arg |-> pred_values, ret |-> ""]

(* lines 714-724 applied to the forecast *)
PredictTrend ==
    /\ call.op = ""
    /\ call' = [op |-> "predicted_trend", arg |-> call.arg,
                ret |-> PredictedTrend(call.arg)]
    /\ UNCHANGED <<alarm_thresholds, detection_config, data_history,
                   alarm_send_history, analysis_results, data_queue, result_queue,
                   deepseek_queue, now, running, exited, deepseek_client,
                   escalation, batches, cycle>>

NextTrend == PredictTrend

SpecTrend == InitTrend /\ [][NextTrend]_vars

(* C29: the predicted trend of a forecast whose values are all equal is
   STABLE, whatever their sign; it is INCREASING only if the last value is
   greater than the first, and DECREASING only if it is smaller. *)
C29_TrendFollowsForecast ==
    call.op = "predicted_trend" =>
      LET pred_values == call.arg
          first == pred_values[1]
          last == pred_values[Len(pred_values)]
      IN  /\ (\A i \in DOMAIN pred_values : pred_values[i] = first)
                => call.ret = "STABLE"
          /\ call.ret = "INCREASING" => (Len(pred_values) >= 2 /\ last > first)
          /\ call.ret = "DECREASING" => (Len(pred_values) >= 2 /\ last < first)


----------------------------------------------------------------------------
(* The stability gate and the sign of the values *)

(* The last 20 samples of the point have a maximum other than 0 and a spread
   of at least 1% of its magnitude *)
VaryingWindow(kks) ==
    LET values == LastN(HistoryOf(data_history, kks), 20)
    IN  /\ Len(values) = 20
        /\ SeqMax(values) # 0
        /\ 100 * (SeqMax(values) - SeqMin(values))
             >= stability_threshold_pct * Abs(SeqMax(values))

(* C30: in a cycle that ran to its end, a point whose last 20 samples vary
   by at least 1% of the magnitude of their non-zero maximum is not taken as
   stable by the stability gate, whatever the sign of the samples, and with
   more than 30 samples its window is handed to the classifier. *)
C30_VaryingWindowNotStable ==
    Completed =>
      \A kks \in AnalysedPoints :
        VaryingWindow(kks) =>
          /\ ~ is_data_too_stable(kks)
          /\ Len(HistoryOf(data_history, kks)) > min_data_points
               => ClassifierRan(kks)


----------------------------------------------------------------------------
(* The history the analysis of a batch reads *)

(* C25: when a batch has been analysed, the newest sample that the history
   held for each of its points during the analysis is the value the batch
   carried for the point, and the history of P1, which every batch carries,
   held as many samples as batches had been received up to that batch: no
   sample of a batch received later was read. *)
C25_HistoryAsOfBatch ==
    Completed =>
      /\ \A kks \in DOMAIN cycle.current_data :
            /\ kks \in DOMAIN cycle.history
            /\ cycle.history[kks][Len(cycle.history[kks])] = cycle.current_data[kks]
      /\ Len(cycle.history["P1"]) = analysis_results.data_source


----------------------------------------------------------------------------
(* The cooldown table and a batch that is dropped *)

(* C26: the cooldown table, empty before the batch, holds a timestamp for a
   key only if a fault record of that key and that time is on the escalation
   queue; after a batch that was dropped the table is as it was before the
   batch, empty. *)
C26_CooldownOnlyForQueued ==
    /\ \A e \in Entries(alarm_send_history) :
          \E g \in Elements(deepseek_queue) :
              /\ g.kks = e[1]
              /\ KeyOf(g) = e[2]
              /\ g.timestamp = alarm_send_history[e[1]][e[2]]
    /\ (cycle # NoCycle /\ cycle.dropped) => alarm_send_history = << >>



----------------------------------------------------------------------------
(* The analysis worker's round taken line by line, next to the result
   sender.  analysis_result is one dict: the object put on result_queue at
   line 241 is the object whose fault records lines 247 and 250 go through,
   so a key set on a fault record there is set in the queued result too, as
   long as the sender has not serialised it.  The worker's place in its
   round, the result it holds, the results as they were put and the payloads
   sent are kept in call. *)

(* PointTableLoader.positive_correlations and negative_correlations of the
   runs: P2 goes with P1 *)
positive_correlations == [k \in {"P1"} |-> <<"P2">>]

negative_correlations == [k \in {"P2"} |-> <<"P1">>]

(* dict.get(kks, []) on a correlation table *)
CorrelationsOf(table, kks) == IF kks \in DOMAIN table THEN table[kks] ELSE <<>>

(* d[key] = value on a dict *)
WithKey(d, key, value) ==
    [f \in DOMAIN d \cup {key} |-> IF f = key THEN value ELSE d[f]]

(* _add_threshold_info: the point's threshold row is set on the fault record
   itself, which is returned *)
add_threshold_info(fault_info) ==
    IF fault_info.kks \in DOMAIN alarm_thresholds
    THEN WithKey(fault_info, "thresholds", alarm_thresholds[fault_info.kks])
    ELSE fault_info

(* _get_correlation_point_data: a correlated point of the table that is in
   the batch, with its value.  (Its history of the last three minutes and its
   row of the last analysis are left out; get_prediction_data answers [] for
   a history shorter than the prediction horizon, as every history here is.) *)
get_correlation_point_data(corr_kks, current_data) ==
    IF corr_kks \in DOMAIN alarm_thresholds /\ corr_kks \in DOMAIN current_data
    THEN <<[kks |-> corr_kks, current_value |-> current_data[corr_kks]]>>
    ELSE <<>>

RECURSIVE CorrelationList(_, _)
CorrelationList(points, current_data) ==
    IF points = <<>> THEN <<>>
    ELSE get_correlation_point_data(Head(points), current_data)
         \o CorrelationList(Tail(points), current_data)

(* _get_correlation_data *)
get_correlation_data(fault_kks, current_data) ==
    [positive |-> CorrelationList(CorrelationsOf(positive_correlations, fault_kks),
                                  current_data),
     negative |-> CorrelationList(CorrelationsOf(negative_correlations, fault_kks),
                                  current_data)]

(* The worker between two rounds, nothing put or sent yet *)
NoRound == [op |-> "take", result |-> << >>, current_data |-> << >>, i |-> 0,
            put |-> <<>>, sent |-> <<>>]

AnnotateValues == {1, 5}

InitAnnotate ==
    \E t1 \in PipelineThresholds, t2 \in PipelineThresholds,
       data_points \in [{"P1", "P2"} -> AnnotateValues] \cup [{"P1"} -> AnnotateValues] :
        /\ InitAnalyzer([k \in {"P1", "P2"} |-> IF k = "P1" THEN t1 ELSE t2],
                        [k \in {"P1", "P2"} |-> PipelineDetection],
                        FirstSamples(data_points), Queued(data_points))
        /\ deepseek_client = EnhancedDeepSeekClient(FALSE)
        /\ call = NoRound

(* The one object behind analysis_results, the worker's analysis_result and
   an entry of result_queue, after a key was set in one of its fault
   records *)
SameObject(queue, result) ==
    [j \in DOMAIN queue |->
        IF queue[j].data_source = result.data_source THEN result ELSE queue[j]]

(* lines 235-241 of _data_analyzer: the batch analysed and its result put *)
Put(current_data, done, results) ==
    /\ analysis_results' = results
    /\ alarm_send_history' = done.send_history
    /\ result_queue' = Append(result_queue, results)
    /\ cycle' = [current_data |-> current_data,
                 decisions |-> done.decisions,
                 escalated |-> done.escalated,
                 breaches |-> done.breaches,
                 history |-> data_history,
                 answers |-> done.answers,
                 dropped |-> FALSE]
    /\ batches' = [batches EXCEPT !.taken = Append(@, results.data_source)]
    /\ call' = [call EXCEPT
                   !.op = IF (results.fault_detected \/ results.alarms # <<>>)
                             /\ results.fault_points # <<>>
                          THEN "reports" ELSE "take",
                   !.result = results,
                   !.current_data = current_data,
                   !.i = 1,
                   !.put = Append(@, results)]
    /\ UNCHANGED deepseek_queue

(* lines 229-241, 255-256 of _data_analyzer *)
AnalyzeAndPut ==
    /\ call.op = "take"
    /\ data_queue # <<>>
    /\ \E oracle \in Oracles(Head(data_queue).data_points) :
           \/ Put(Head(data_queue).data_points,
                  analyze_current_status(Head(data_queue).data_points, oracle),
                  WithSource(analyze_current_status(Head(data_queue).data_points,
                                                    oracle).results,
                             Head(data_queue).source))
           \/ /\ \E i \in KnownPoints(Head(data_queue).data_points) :
                     Dropped(Head(data_queue).source,
                             analyze_points_before(Head(data_queue).data_points,
                                                   oracle, i))
              /\ UNCHANGED call
    /\ data_queue' = Tail(data_queue)
    /\ UNCHANGED <<alarm_thresholds, detection_config, data_history, now, running,
                   exited, deepseek_client, escalation>>

(* The worker's result with its i-th fault record replaced, and where the
   worker goes next: the next record, or on *)
Annotated(fault_info, next_op) ==
    /\ call' = [call EXCEPT
                   !.result.fault_points[call.i] = fault_info,
                   !.i = IF call.i < Len(call.result.fault_points) THEN @ + 1 ELSE 1,
                   !.op = IF call.i < Len(call.result.fault_points) THEN @ ELSE next_op]
    /\ result_queue' = SameObject(result_queue, call'.result)
    /\ analysis_results' = call'.result

(* line 247, _send_fault_reports: one fault record given its thresholds and
   reported *)
SendFaultReport ==
    /\ call.op = "reports"
    /\ Annotated(add_threshold_info(call.result.fault_points[call.i]), "queue")
    /\ UNCHANGED <<alarm_thresholds, detection_config, data_history,
                   alarm_send_history, data_queue, deepseek_queue, now, running,
                   exited, deepseek_client, escalation, batches, cycle>>

(* line 250, _queue_deepseek_analysis: one fault record, passed over or given
   its correlated points and put on deepseek_queue *)
QueueDeepseekAnalysis ==
    /\ call.op = "queue"
    /\ LET fault_info == call.result.fault_points[call.i]
           queued == WithKey(fault_info, "correlation_points",
                             get_correlation_data(fault_info.kks, call.current_data))
       IN  IF fault_info.send_to_deepseek
           THEN /\ Annotated(queued, "take")
                /\ deepseek_queue' = Append(deepseek_queue, queued)
           ELSE /\ Annotated(fault_info, "take")
                /\ UNCHANGED deepseek_queue
    /\ UNCHANGED <<alarm_thresholds, detection_config, data_history,
                   alarm_send_history, data_queue, now, running, exited,
                   deepseek_client, escalation, batches, cycle>>

(* _result_sender, _send_analysis_result: the result at the head of the queue
   serialised as it is at that moment, and sent *)
SendAnalysisResult ==
    /\ result_queue # <<>>
    /\ result_queue' = Tail(result_queue)
    /\ batches' = [batches EXCEPT !.delivered = Append(@, Head(result_queue).data_source)]
    /\ call' = [call EXCEPT !.sent = Append(@, Head(result_queue))]
    /\ UNCHANGED <<alarm_thresholds, detection_config, data_history,
                   alarm_send_history, analysis_results, data_queue,
                   deepseek_queue, now, running, exited, deepseek_client,
                   escalation, cycle>>

NextAnnotate ==
    \/ AnalyzeAndPut
    \/ SendFaultReport
    \/ QueueDeepseekAnalysis
    \/ SendAnalysisResult

SpecAnnotate == InitAnnotate /\ [][NextAnnotate]_vars

(* C27: the payload sent for a batch is the result as it was put on the
   result queue: no fault record in it was given a key after the put,
   whichever of the analysis worker and the result sender ran first. *)
C27_PayloadAsPut ==
    \A k \in DOMAIN call.sent :
        \E j \in DOMAIN call.put :
            /\ call.put[j].data_source = call.sent[k].data_source
            /\ call.put[j] = call.sent[k]

====
